---- MODULE Spec2Model ----
(***************************************************************************)
(* UWB Navigator API gateway (fastapi_server.py): the device registry      *)
(* filled by the Bonjour listener, the probe engine, the staleness         *)
(* sweeper, the aggregator and the WebSocket broadcast.                    *)
(*                                                                         *)
(* Execution model.  The listener callbacks (add_service, remove_service,  *)
(* update_service) run on the ServiceBrowser thread; everything else runs  *)
(* on the asyncio event loop.  Event-loop code is cut at its awaits and,   *)
(* where one handler reads the registry more than once without awaiting    *)
(* (the sweeper's loop, the aggregator), at those reads, because a         *)
(* listener callback can run between them.  Nothing is lock-guarded.       *)
(*                                                                         *)
(* A Python dict held in a local variable is modelled by a reference       *)
(* [id, orphan, frozen]: while the dict is still the registry's value for  *)
(* id, orphan is FALSE and reads and writes go to the registry; once the   *)
(* registry entry has been replaced or deleted, the reference keeps the    *)
(* detached dict in frozen.                                                *)
(***************************************************************************)
EXTENDS Integers, Sequences, FiniteSets, TLC

VARIABLES
    discovered_devices,   \* dict device_id -> device_info            (line 26)
    devOrder,             \* key order of discovered_devices (insertion order)
    device_data_cache,    \* dict device_id -> data                   (line 27)
    cacheOrder,           \* key order of device_data_cache
    websocket_clients,    \* list of connected sockets                (line 28)
    probes,               \* fetch_device_data coroutines, one per slot
    sweep,                \* cleanup_stale_devices, inside one pass of its loop
    agg,                  \* get_aggregated_data called by GET /api/all
    cast,                 \* broadcast_update suspended in a send_json
    cycle,                \* periodic_fetch, inside the loop of lines 398-399
    outbox,               \* per socket: the envelopes sent to it
    now,                  \* datetime.now(), in minutes
    last                  \* the operation that ran last, and what it saw

vars == <<discovered_devices, devOrder, device_data_cache, cacheOrder,
          websocket_clients, probes, sweep, agg, cast, cycle, outbox, now,
          last>>

-----------------------------------------------------------------------------
(* Bounds of the model *)

NumProbes == 2        \* fetch_device_data coroutines alive at the same time
MaxTime == 4          \* the clock stops here
MaxClients == 2       \* sockets that ever connect

(* Program constants *)

TTLMinutes == 2       \* timedelta(minutes=2)

-----------------------------------------------------------------------------
(* Python values *)

\* Optional value: <<>> is None / an absent key, <<v>> is v.
NoneVal == <<>>
Some(v) == <<v>>
IsSome(o) == o # <<>>
The(o) == o[1]

\* dict.get(key, default) on a dict modelled as a function.
Get(d, key, default) == IF key \in DOMAIN d THEN d[key] ELSE default

\* An assignment that leaves the value of an existing key alone.
Put_KeepExisting(d, k, v) ==
    [x \in (DOMAIN d) \cup {k} |-> IF x \in DOMAIN d THEN d[x] ELSE v]

\* d[k] = v
Put(d, k, v) == [x \in (DOMAIN d) \cup {k} |-> IF x = k THEN v ELSE d[x]]

\* del d[k] for every k in ks
Del(d, ks) == [x \in (DOMAIN d) \ ks |-> d[x]]

EmptyDict == [x \in {} |-> x]

\* Key order after d[k] = v: a new key goes last, an existing key keeps its place.
OrderPut(order, k) ==
    IF \E i \in 1..Len(order) : order[i] = k THEN order ELSE Append(order, k)

\* Key order after the keys ks are deleted.
OrderDel(order, ks) == SelectSeq(order, LAMBDA k : k \notin ks)

\* A host as it is stored or put in a URL: an address, bracketed or not.
Host(a, br) == [addr |-> a, bracketed |-> br]

Slots == 1..NumProbes

-----------------------------------------------------------------------------
(* What the network and the discovery transport can deliver *)

Names == {"n1", "n2"}                 \* Bonjour service names

-----------------------------------------------------------------------------
(* IOSDeviceListener *)

\* _parse_addresses: the last entry of each family wins, other lengths are skipped.
RECURSIVE ParseAddresses(_, _)
ParseAddresses(raw, acc) ==
    IF raw = <<>> THEN acc
    ELSE LET r == Head(raw)
             acc2 == IF r.len = 4 THEN Put(acc, "ipv4", r.addr)
                     ELSE IF r.len = 16 THEN Put(acc, "ipv6", r.addr)
                     ELSE acc
         IN ParseAddresses(Tail(raw), acc2)

\* addresses.get('ipv4', addresses.get('ipv6'))
PrimaryIp(addresses) ==
    IF "ipv4" \in DOMAIN addresses THEN Some(Host(addresses["ipv4"], FALSE))
    ELSE IF "ipv6" \in DOMAIN addresses THEN Some(Host(addresses["ipv6"], FALSE))
    ELSE NoneVal

\* A key taken from the service name alone, whatever the TXT record says.
DeviceIdOf_NameOnly(txt, name) == name

\* device_id = txt_data.get('deviceId', name)
DeviceIdOf(txt, name) == Get(txt, "deviceId", name)

\* The keys add_service deletes before it stores the record (lines 58-64).
EvictedBy(reg, device_id, name) ==
    IF device_id \in DOMAIN reg /\ reg[device_id].service_name # name
    THEN { did \in DOMAIN reg :
             /\ reg[did].service_name = reg[device_id].service_name
             /\ did # device_id }
    ELSE {}

\* device_info as add_service builds it (lines 66-78).
DeviceInfo(name, info) ==
    LET addresses == ParseAddresses(info.addresses, EmptyDict)
        txt == info.properties
    IN [ id |-> DeviceIdOf(txt, name),
         email |-> Get(txt, "email", "unknown"),
         role |-> Get(txt, "role", "unknown"),
         addresses |-> addresses,
         ip |-> PrimaryIp(addresses),
         port |-> info.port,
         service_name |-> name,
         status |-> "discovered",
         last_successful_fetch |-> NoneVal,
         working_address |-> NoneVal,
         manual |-> FALSE ]

-----------------------------------------------------------------------------
(* References to device_info dicts held by running code *)

NoRef == [id |-> "", orphan |-> TRUE, frozen |-> EmptyDict]

RefTo(id) == [id |-> id, orphan |-> FALSE, frozen |-> EmptyDict]

\* The dict a reference points to.
Deref(reg, ref) == IF ref.orphan THEN ref.frozen ELSE reg[ref.id]

\* A reference after the registry keys `gone` were replaced or deleted in `reg`.
Detach(reg, ref, gone) ==
    IF ~ref.orphan /\ ref.id \in gone
    THEN [ref EXCEPT !.orphan = TRUE, !.frozen = reg[ref.id]]
    ELSE ref

-----------------------------------------------------------------------------
(* fetch_device_data: the probe order *)

\* addresses_to_try (lines 146-155): IPv4, then bracketed IPv6, else the ip field.
AddressesToTry(device) ==
    IF device.addresses # EmptyDict
    THEN (IF "ipv4" \in DOMAIN device.addresses
          THEN << Host(device.addresses["ipv4"], FALSE) >> ELSE << >>)
         \o
         (IF "ipv6" \in DOMAIN device.addresses
          THEN << Host(device.addresses["ipv6"], TRUE) >> ELSE << >>)
    ELSE IF IsSome(device.ip) THEN << The(device.ip) >>
    ELSE << >>

\* ports (line 163)
PortsToTry(device) ==
    IF device.port # 0 THEN << device.port >> ELSE << 8080, 8081, 8082, 8083 >>

\* The (address, port) pairs in the order of the two nested loops (lines 166-167).
RECURSIVE PairsOf(_, _)
PairsOf(addresses, ports) ==
    IF addresses = << >> THEN << >>
    ELSE [ i \in 1..Len(ports) |-> [address |-> Head(addresses), port |-> ports[i]] ]
         \o PairsOf(Tail(addresses), ports)

\* A response of the gather (lines 177-184) is told apart by its kind:
\* "exception", "non200", "unparseable" or "json".

\* data as lines 187-215 fill it from the four responses.
ProcessResponses(responses, t) ==
    [ timestamp |-> t,
      status |-> IF responses[1].kind = "json" THEN Some(responses[1].body)
                 ELSE NoneVal,
      anchors |-> IF responses[2].kind = "json" /\ responses[2].islist
                  THEN responses[2].body ELSE << >>,
      navigators |-> IF responses[3].kind = "json" /\ responses[3].islist
                     THEN responses[3].body ELSE << >>,
      distances |-> IF responses[4].kind = "json" THEN Some(responses[4].body)
                    ELSE NoneVal ]

-----------------------------------------------------------------------------
(* get_aggregated_data *)

\* One entry of the merged lists.  A cached item is whatever JSON the device
\* sent: a dict with an id, a dict without one, or no dict at all.
Item(isdict, id) ==
    [ isdict |-> isdict, id |-> id, placeholder |-> FALSE,
      error_message |-> NoneVal, connected |-> NoneVal,
      source_device |-> NoneVal, source_ip |-> NoneVal ]

\* device_info.get('working_address', device_info.get('ip'))
SourceIp(device_info) ==
    IF IsSome(Get(device_info, "working_address", NoneVal))
    THEN device_info.working_address
    ELSE Get(device_info, "ip", NoneVal)

\* One entry of devices_info (lines 267-278).
DeviceEntry(device_id, device_info) ==
    [ id |-> device_id, email |-> device_info.email, role |-> device_info.role,
      status |-> device_info.status ]

PlaceholderStatuses == {"error", "offline", "stale"}

\* The placeholder of lines 289-299 (anchor) and 303-312 (navigator).
Placeholder(device_id, device_info) ==
    [ isdict |-> TRUE, id |-> Some(device_id), placeholder |-> TRUE,
      error_message |-> Some(SourceIp(device_info)), connected |-> Some(0),
      source_device |-> Some(device_info.email),
      source_ip |-> SourceIp(device_info) ]

\* A placeholder step that only considers status error.
WithPlaceholder_ErrorOnly(lists, device_id, device_info) ==
    IF device_info.status = "error" /\ device_info.role = "anchor"
    THEN [lists EXCEPT !.anchors = Append(@, Placeholder(device_id, device_info))]
    ELSE IF device_info.status = "error" /\ device_info.role = "navigator"
    THEN [lists EXCEPT !.navigators = Append(@, Placeholder(device_id, device_info))]
    ELSE lists

\* Lines 281-313: the lists after the placeholder step for one device.
WithPlaceholder(lists, device_id, device_info) ==
    IF device_info.status \in PlaceholderStatuses /\ device_info.role # ""
    THEN IF device_info.role = "anchor"
         THEN [lists EXCEPT !.anchors = Append(@, Placeholder(device_id, device_info))]
         ELSE IF device_info.role = "navigator"
         THEN [lists EXCEPT
                 !.navigators = Append(@, Placeholder(device_id, device_info))]
         ELSE lists
    ELSE lists

\* A collision test that takes any non-empty merged list for a collision.
AnyIdMatch_NonEmpty(acc, id) == IF acc = << >> THEN "nomatch" ELSE "match"

\* A collision test that looks at the cached entries only, not at placeholders.
RECURSIVE AnyIdMatch_CachedOnly(_, _)
AnyIdMatch_CachedOnly(acc, id) ==
    IF acc = << >> THEN "nomatch"
    ELSE IF Head(acc).placeholder THEN AnyIdMatch_CachedOnly(Tail(acc), id)
    ELSE IF ~IsSome(Head(acc).id) THEN "raise"
    ELSE IF Head(acc).id = id THEN "match"
    ELSE AnyIdMatch_CachedOnly(Tail(acc), id)

\* any(a['id'] == item.get('id') for a in acc): "raise" is the KeyError of an
\* entry without an id reached before a match.
RECURSIVE AnyIdMatch(_, _)
AnyIdMatch(acc, id) ==
    IF acc = << >> THEN "nomatch"
    ELSE IF ~IsSome(Head(acc).id) THEN "raise"
    ELSE IF Head(acc).id = id THEN "match"
    ELSE AnyIdMatch(Tail(acc), id)

\* The loop of lines 320-326 (329-335) over one cached list: every item is
\* annotated in place, then appended unless an entry with its id is there.
\* items: still to visit; acc: the merged list; done: the visited items.
\* Lines 322-323: the item with its source written into it.
Annotated(it, device_info) ==
    [it EXCEPT !.source_device = Some(Get(device_info, "email", "unknown")),
               !.source_ip = SourceIp(device_info)]

RECURSIVE MergeItems(_, _, _, _)

\* Lines 325-326 for the annotated item it2, m being the outcome of the test.
MergeOne(items, acc, done, device_info, it2, m) ==
    IF m = "raise"
    THEN [raised |-> TRUE, acc |-> acc,
          items |-> done \o << it2 >> \o Tail(items)]
    ELSE MergeItems(Tail(items), IF m = "match" THEN acc ELSE Append(acc, it2),
                    Append(done, it2), device_info)

MergeItems(items, acc, done, device_info) ==
    IF items = << >> THEN [raised |-> FALSE, acc |-> acc, items |-> done]
    ELSE IF ~Head(items).isdict
    THEN [raised |-> TRUE, acc |-> acc, items |-> done \o items]
    ELSE MergeOne(items, acc, done, device_info,
                  Annotated(Head(items), device_info),
                  AnyIdMatch(acc, Head(items).id))

\* Lines 316-335 for one key of device_data_cache.
\* a, n: the outcome of the anchors loop and of the navigators loop, which
\* runs only if the first did not raise.
MergedLists(cached_data, lists, a, n) ==
    IF a.raised
    THEN [raised |-> TRUE, lists |-> lists,
          cached |-> [cached_data EXCEPT !.anchors = a.items]]
    ELSE [raised |-> n.raised,
          lists |-> [lists EXCEPT !.anchors = a.acc, !.navigators = n.acc],
          cached |-> [cached_data EXCEPT !.anchors = a.items,
                                         !.navigators = n.items]]

MergeCached(reg, device_id, cached_data, lists) ==
    MergedLists(cached_data, lists,
                MergeItems(cached_data.anchors, lists.anchors, << >>,
                           Get(reg, device_id, EmptyDict)),
                MergeItems(cached_data.navigators, lists.navigators, << >>,
                           Get(reg, device_id, EmptyDict)))

\* connection_count (line 342)
ConnectionCount(reg) ==
    Cardinality({ d \in DOMAIN reg : reg[d].status = "connected" })

NoLists == [devices |-> << >>, anchors |-> << >>, navigators |-> << >>]

\* The first loop (lines 266-313) run without interruption.
RECURSIVE RegistryPass(_, _, _)
RegistryPass(reg, order, lists) ==
    IF order = << >> THEN lists
    ELSE RegistryPass(reg, Tail(order),
                      WithPlaceholder(
                          [lists EXCEPT
                             !.devices = Append(@, DeviceEntry(Head(order),
                                                               reg[Head(order)]))],
                          Head(order), reg[Head(order)]))

\* The second loop (lines 316-335) run without interruption.
RECURSIVE CachePass(_, _, _, _)

\* m: the outcome of lines 317-335 for the first key of order.
CacheStep(reg, cache, order, lists, m) ==
    IF m.raised
    THEN [raised |-> TRUE, lists |-> lists,
          cache |-> [cache EXCEPT ![Head(order)] = m.cached]]
    ELSE CachePass(reg, [cache EXCEPT ![Head(order)] = m.cached], Tail(order),
                   m.lists)

CachePass(reg, cache, order, lists) ==
    IF order = << >> THEN [raised |-> FALSE, lists |-> lists, cache |-> cache]
    ELSE CacheStep(reg, cache, order, lists,
                   MergeCached(reg, Head(order), cache[Head(order)], lists))

\* The dict returned at lines 337-343.
Snapshot(lists, count) ==
    [ devices |-> lists.devices, anchors |-> lists.anchors,
      navigators |-> lists.navigators, connection_count |-> count ]

\* get_aggregated_data when no listener callback runs during the call: the
\* snapshot (unless it raised) and device_data_cache with its items annotated.
Aggregated(c, count) ==
    [ raised |-> c.raised, cache |-> c.cache, data |-> Snapshot(c.lists, count) ]

Aggregate(reg, order, cache, corder) ==
    Aggregated(CachePass(reg, cache, corder, RegistryPass(reg, order, NoLists)),
               ConnectionCount(reg))

-----------------------------------------------------------------------------
(* Coroutine frames *)

\* A fetch_device_data call: idle (no call), scheduled (a task created by
\* add_service that has not run yet) or loop (inside the two for loops).
\* issued: the pairs whose /api/status was requested; okAt: the position in
\* issued of the first request answered 200 (0: none yet).
IdleProbe ==
    [ pc |-> "idle", id |-> "", dev |-> NoRef, pairs |-> << >>,
      issued |-> << >>, okAt |-> 0 ]

IdleSweep ==
    [ pc |-> "idle", cutoff |-> 0, pos |-> 0, size |-> 0, cur |-> NoRef,
      stale |-> FALSE ]

IdleAgg ==
    [ pc |-> "idle", pos |-> 0, size |-> 0, cur |-> NoRef, lists |-> NoLists ]

\* A broadcast_update call inside its for loop (lines 249-253): the probe
\* slot that awaits it, the index the list iterator yields next, the socket
\* whose send_json is awaited, the message, the list `disconnected`;
\* started: websocket_clients when the loop began;
\* attempted: the sockets send_json was called on, in order.
IdleCast ==
    [ pc |-> "idle", slot |-> 0, pos |-> 0, cur |-> 0, message |-> NoneVal,
      disconnected |-> << >>, started |-> << >>, attempted |-> << >> ]

\* periodic_fetch inside its for loop (lines 398-399): the index the dict
\* iterator yields next, the size of the registry when the iteration began,
\* the ids fetch_device_data was called with so far (the list `tasks`);
\* started: the keys of the registry when the iteration began.
IdleCycle ==
    [ pc |-> "idle", pos |-> 0, size |-> 0, tasks |-> << >>,
      started |-> << >> ]

Clients == 1..MaxClients

\* A socket: its handler (none: never connected, recv: in the receive loop,
\* dead: the handler has returned) and the last envelope sent to it.
NoSocket == [handler |-> "none", sent |-> NoneVal]

\* The event loop is between two tasks: no handler is inside a stretch of
\* code without await.
LoopFree == sweep.pc = "idle" /\ agg.pc = "idle" /\ cycle.pc = "idle"

\* The device dict of every fetch_device_data in flight, after the keys `gone`
\* were replaced or deleted.  Nothing reads a detached dict of a probe again,
\* so its content is not kept.
DetachProbes(gone) ==
    [ s \in Slots |->
        IF probes[s].dev.id \in gone
        THEN [probes[s] EXCEPT !.dev.orphan = TRUE] ELSE probes[s] ]

\* A write through a reference: the registry and the reference afterwards.
WriteRef(reg, ref, device) ==
    IF ref.orphan THEN [reg |-> reg, ref |-> [ref EXCEPT !.frozen = device]]
    ELSE [reg |-> [reg EXCEPT ![ref.id] = device], ref |-> ref]

Init ==
    /\ discovered_devices = EmptyDict
    /\ devOrder = << >>
    /\ device_data_cache = EmptyDict
    /\ cacheOrder = << >>
    /\ websocket_clients = << >>
    /\ probes = [s \in Slots |-> IdleProbe]
    /\ sweep = IdleSweep
    /\ agg = IdleAgg
    /\ cast = IdleCast
    /\ cycle = IdleCycle
    /\ outbox = [c \in Clients |-> NoSocket]
    /\ now = 0
    /\ last = [op |-> "init"]

-----------------------------------------------------------------------------
(* IOSDeviceListener callbacks *)

\* The status add_service finds under the key it is about to write (line 58).
StatusBefore(reg, name, info) ==
    IF info = NoneVal THEN "unresolved"
    ELSE IF DeviceInfo(name, The(info)).id \in DOMAIN reg
    THEN reg[DeviceInfo(name, The(info)).id].status
    ELSE "absent"

\* add_service / update_service for `name`, get_service_info returning `info`.
\* inLoop: asyncio.get_running_loop() succeeds, so the callback runs on the
\* event loop and a task for fetch_device_data is created in slot s.
AddService(name, info, inLoop, s) ==
    /\ inLoop => LoopFree /\ probes[s].pc = "idle"
    /\ ~inLoop => s = 1
    /\ last' = [op |-> "add_service", name |-> name, info |-> info,
                was |-> StatusBefore(discovered_devices, name, info)]
    /\ UNCHANGED <<device_data_cache, cacheOrder, websocket_clients, cast, cycle,
                   outbox, now>>
    /\ IF info = NoneVal
       THEN UNCHANGED <<discovered_devices, devOrder, probes, sweep, agg>>
       ELSE LET device_info == DeviceInfo(name, The(info))
                device_id == device_info.id
                evicted == EvictedBy(discovered_devices, device_id, name)
                gone == evicted \cup ({device_id} \cap DOMAIN discovered_devices)
                detached == DetachProbes(gone)
            IN /\ discovered_devices' =
                      Put(Del(discovered_devices, evicted), device_id, device_info)
               /\ devOrder' = OrderPut(OrderDel(devOrder, evicted), device_id)
               /\ probes' = IF inLoop
                            THEN [detached EXCEPT ![s] =
                                    [IdleProbe EXCEPT !.pc = "scheduled",
                                                      !.id = device_id]]
                            ELSE detached
               /\ sweep' = [sweep EXCEPT !.cur = Detach(discovered_devices, @, gone)]
               /\ agg' = [agg EXCEPT !.cur = Detach(discovered_devices, @, gone)]

\* The first key, in dict order, whose record has this service name.
RECURSIVE FirstWithName(_, _, _)
FirstWithName(reg, order, name) ==
    IF order = << >> THEN NoneVal
    ELSE IF reg[Head(order)].service_name = name THEN Some(Head(order))
    ELSE FirstWithName(reg, Tail(order), name)

\* A remove_service that deletes the record instead of marking it.
RemoveService_Deleting(name) ==
    LET hit == FirstWithName(discovered_devices, devOrder, name)
        gone == IF IsSome(hit) THEN {The(hit)} ELSE {}
    IN /\ discovered_devices' = Del(discovered_devices, gone)
       /\ devOrder' = OrderDel(devOrder, gone)
       /\ probes' = DetachProbes(gone)
       /\ sweep' = [sweep EXCEPT !.cur = Detach(discovered_devices, @, gone)]
       /\ agg' = [agg EXCEPT !.cur = Detach(discovered_devices, @, gone)]
       /\ last' = [op |-> "remove_service", name |-> name]
       /\ UNCHANGED <<device_data_cache, cacheOrder, websocket_clients, cast, cycle,
                      outbox, now>>

\* remove_service (lines 100-107)
RemoveService(name) ==
    LET hit == FirstWithName(discovered_devices, devOrder, name)
    IN /\ discovered_devices' =
              IF IsSome(hit)
              THEN [discovered_devices EXCEPT ![The(hit)].status = "offline"]
              ELSE discovered_devices
       /\ last' = [op |-> "remove_service", name |-> name]
       /\ UNCHANGED <<devOrder, device_data_cache, cacheOrder, websocket_clients,
                      probes, sweep, agg, cast, cycle, outbox, now>>

-----------------------------------------------------------------------------
(* broadcast_update, with every send completing before anything else runs *)

\* failing: the sockets whose send_json raises.
\* Lines 243-257, a being what get_aggregated_data did.
SendAll(a, clients, failing) ==
    IF a.raised
    THEN [raised |-> TRUE, cache |-> a.cache, clients |-> clients,
          delivered |-> {}, data |-> NoneVal]
    ELSE [raised |-> FALSE, cache |-> a.cache,
          clients |-> SelectSeq(clients, LAMBDA c : c \notin failing),
          delivered |-> { clients[i] : i \in 1..Len(clients) } \ failing,
          data |-> Some(a.data)]

BroadcastUpdate(reg, order, cache, corder, clients, failing) ==
    IF clients = << >>
    THEN [raised |-> FALSE, cache |-> cache, clients |-> clients,
          delivered |-> {}, data |-> NoneVal]
    ELSE SendAll(Aggregate(reg, order, cache, corder), clients, failing)

\* outbox after a broadcast
Delivered(box, b) ==
    [ c \in Clients |->
        IF c \in b.delivered
        THEN [box[c] EXCEPT !.sent = Some([type |-> "update", data |-> The(b.data)])]
        ELSE box[c] ]

-----------------------------------------------------------------------------
(* fetch_device_data *)

\* BeginFetch without the test of line 142.
BeginFetch_NoGuard(reg, device_id) ==
    IF device_id \notin DOMAIN reg
    THEN [reg |-> reg, frame |-> IdleProbe, outcome |-> "skipped"]
    ELSE IF AddressesToTry(reg[device_id]) = << >>
    THEN [reg |-> [reg EXCEPT ![device_id].status = "error"],
          frame |-> IdleProbe, outcome |-> "no_addresses"]
    ELSE [reg |-> reg,
          frame |-> [IdleProbe EXCEPT
                       !.pc = "loop", !.id = device_id,
                       !.dev = RefTo(device_id),
                       !.pairs = PairsOf(AddressesToTry(reg[device_id]),
                                         PortsToTry(reg[device_id]))],
          outcome |-> "started"]

\* Lines 141-163, up to the first request: the registry and the frame after.
BeginFetch(reg, device_id) ==
    IF device_id \notin DOMAIN reg \/ reg[device_id].status = "offline"
    THEN [reg |-> reg, frame |-> IdleProbe, outcome |-> "skipped"]
    ELSE LET device == reg[device_id]
             addresses_to_try == AddressesToTry(device)
         IN IF addresses_to_try = << >>
            THEN [reg |-> [reg EXCEPT ![device_id].status = "error"],
                  frame |-> IdleProbe, outcome |-> "no_addresses"]
            ELSE [reg |-> reg,
                  frame |-> [IdleProbe EXCEPT
                               !.pc = "loop", !.id = device_id,
                               !.dev = RefTo(device_id),
                               !.pairs = PairsOf(addresses_to_try,
                                                 PortsToTry(device))],
                  outcome |-> "started"]

\* The ids fetch_device_data can be called with in slot s: the id of the task
\* add_service created (line 92), whether or not the key is still in the
\* registry, or a key periodic_fetch or refresh_discovery read (lines 399, 565).
Startable(s) ==
    IF probes[s].pc = "scheduled" THEN {probes[s].id}
    ELSE DOMAIN discovered_devices

\* A call of fetch_device_data(device_id) starts running in slot s: the task
\* add_service created, or a call by periodic_fetch or refresh_discovery.
FetchDeviceData(s, device_id) ==
    /\ LoopFree
    /\ \/ probes[s].pc = "idle"
       \/ probes[s].pc = "scheduled" /\ probes[s].id = device_id
    /\ LET b == BeginFetch(discovered_devices, device_id)
       IN /\ discovered_devices' = b.reg
          /\ probes' = [probes EXCEPT ![s] = b.frame]
          /\ last' = [op |-> "fetch_device_data", step |-> b.outcome,
                      id |-> device_id, frame |-> b.frame]
    /\ UNCHANGED <<devOrder, device_data_cache, cacheOrder, websocket_clients,
                   sweep, agg, cast, cycle, outbox, now>>

\* The liveness request to the next pair is answered by something other than
\* 200, or raises (lines 172-174, 230-232): on to the next pair.
LivenessFails(s) ==
    /\ LoopFree
    /\ probes[s].pc = "loop"
    /\ probes[s].pairs # << >>
    /\ LET f == [probes[s] EXCEPT !.issued = Append(@, Head(probes[s].pairs)),
                                  !.pairs = Tail(@)]
       IN /\ probes' = [probes EXCEPT ![s] = f]
          /\ last' = [op |-> "fetch_device_data", step |-> "liveness_failed",
                      id |-> f.id, frame |-> f]
    /\ UNCHANGED <<discovered_devices, devOrder, device_data_cache, cacheOrder,
                   websocket_clients, sweep, agg, cast, cycle, outbox, now>>

\* A probe that writes the status and nothing else.
Connected_StatusOnly(device, pair, t) == [device EXCEPT !.status = "connected"]

\* device after lines 219-222
Connected(device, pair, t) ==
    [device EXCEPT !.status = "connected",
                   !.last_successful_fetch = Some(t),
                   !.port = pair.port,
                   !.working_address = Some(pair.address)]

\* What the handler of line 230 does with an exception of broadcast_update.
AfterBroadcastRaised(f) == [f EXCEPT !.pairs = Tail(@)]

\* The liveness request to the next pair is answered 200 (line 172); the four
\* fetches return `responses`; lines 187-228.
\* The frame after the request to its next pair was answered 200.
Answered(f0) ==
    [f0 EXCEPT !.issued = Append(@, Head(f0.pairs)),
               !.okAt = IF @ = 0 THEN Len(f0.issued) + 1 ELSE @]

\* The registry after lines 219-222 ran on the dict the frame holds.
MarkConnected(reg, f, t) ==
    IF f.dev.orphan THEN reg
    ELSE [reg EXCEPT ![f.id] = Connected(@, Head(f.pairs), t)]

\* Lines 225-232: b is what broadcast_update did.
AfterBroadcast(s, f, b, responses) ==
    /\ device_data_cache' = b.cache
    /\ websocket_clients' = b.clients
    /\ outbox' = Delivered(outbox, b)
    /\ probes' = [probes EXCEPT ![s] =
                    IF b.raised THEN AfterBroadcastRaised(f) ELSE IdleProbe]
    /\ last' = [op |-> "fetch_device_data",
                step |-> IF b.raised THEN "broadcast_raised" ELSE "connected",
                id |-> f.id, frame |-> f, delivered |-> b.delivered,
                clients |-> websocket_clients, responses |-> responses]

LivenessOk(s, responses, failing) ==
    /\ LoopFree
    /\ probes[s].pc = "loop"
    /\ probes[s].pairs # << >>
    /\ discovered_devices' = MarkConnected(discovered_devices, probes[s], now)
    /\ cacheOrder' = OrderPut(cacheOrder, probes[s].id)
    /\ AfterBroadcast(s, Answered(probes[s]),
                      BroadcastUpdate(
                          MarkConnected(discovered_devices, probes[s], now),
                          devOrder,
                          Put(device_data_cache, probes[s].id,
                              ProcessResponses(responses, now)),
                          OrderPut(cacheOrder, probes[s].id),
                          websocket_clients, failing),
                      responses)
    /\ UNCHANGED <<devOrder, sweep, agg, cast, cycle, now>>

\* Lines 256-257: `disconnected` is removed from the list, one remove() after
\* the other; remove() of a socket that is not in the list raises ValueError.
RECURSIVE RemoveAll(_, _)
RemoveAll(clients, disconnected) ==
    IF disconnected = << >> THEN [raised |-> FALSE, clients |-> clients]
    ELSE IF \A i \in 1..Len(clients) : clients[i] # Head(disconnected)
    THEN [raised |-> TRUE, clients |-> clients]
    ELSE RemoveAll(
             LET k == CHOOSE i \in 1..Len(clients) :
                         /\ clients[i] = Head(disconnected)
                         /\ \A j \in 1..(i - 1) : clients[j] # Head(disconnected)
             IN SubSeq(clients, 1, k - 1) \o SubSeq(clients, k + 1, Len(clients)),
             Tail(disconnected))

\* The frame of broadcast_update when the first send_json is called.
FirstSend(s, clients, data) ==
    [ pc |-> "send", slot |-> s, pos |-> 2, cur |-> clients[1],
      message |-> Some([type |-> "update", data |-> data]),
      disconnected |-> << >>, started |-> clients, attempted |-> << clients[1] >> ]

\* Lines 225 and 240-251 for the probe frame f: a is what get_aggregated_data
\* did, if there is a client to call it for.
Publishing(s, f, cache1, a) ==
    IF websocket_clients = << >>
    THEN /\ device_data_cache' = cache1
         /\ probes' = [probes EXCEPT ![s] = IdleProbe]
         /\ cast' = cast
         /\ last' = [op |-> "fetch_device_data", step |-> "connected",
                     id |-> f.id, frame |-> f, delivered |-> {},
                     clients |-> websocket_clients]
    ELSE /\ device_data_cache' = a.cache
         /\ probes' = [probes EXCEPT ![s] =
                         IF a.raised THEN AfterBroadcastRaised(f)
                         ELSE [f EXCEPT !.pc = "broadcast"]]
         /\ cast' = IF a.raised THEN cast
                    ELSE FirstSend(s, websocket_clients, a.data)
         /\ last' = [op |-> "fetch_device_data",
                     step |-> IF a.raised THEN "broadcast_raised" ELSE "sending",
                     id |-> f.id, frame |-> f, delivered |-> {},
                     clients |-> websocket_clients]

\* The liveness request to the next pair is answered 200 (line 172), the four
\* fetches return `responses`, lines 187-222 run and broadcast_update is
\* awaited: it returns at once, raises, or is suspended in its first send.
PublishBegin(s, responses) ==
    /\ LoopFree
    /\ cast.pc = "idle"
    /\ probes[s].pc = "loop"
    /\ probes[s].pairs # << >>
    /\ discovered_devices' = MarkConnected(discovered_devices, probes[s], now)
    /\ cacheOrder' = OrderPut(cacheOrder, probes[s].id)
    /\ Publishing(s, Answered(probes[s]),
                  Put(device_data_cache, probes[s].id,
                      ProcessResponses(responses, now)),
                  Aggregate(MarkConnected(discovered_devices, probes[s], now),
                            devOrder,
                            Put(device_data_cache, probes[s].id,
                                ProcessResponses(responses, now)),
                            OrderPut(cacheOrder, probes[s].id)))
    /\ UNCHANGED <<devOrder, websocket_clients, sweep, agg, outbox, now, cycle>>

\* The send in flight is over (lines 250-253): the frame and the outbox.
SendDone(fails) ==
    [ frame |-> [cast EXCEPT !.disconnected =
                                 IF fails THEN Append(@, cast.cur) ELSE @],
      outbox |-> IF fails THEN outbox
                 ELSE [outbox EXCEPT ![cast.cur].sent = cast.message] ]

\* The send in flight returns or raises, and the list iterator of line 249
\* yields the next socket: send_json is called on it.
CastNext(fails) ==
    /\ LoopFree
    /\ cast.pc = "send"
    /\ cast.pos <= Len(websocket_clients)
    /\ cast' = [SendDone(fails).frame EXCEPT
                  !.cur = websocket_clients[cast.pos],
                  !.pos = @ + 1,
                  !.attempted = Append(@, websocket_clients[cast.pos])]
    /\ outbox' = SendDone(fails).outbox
    /\ last' = [op |-> "broadcast_update", step |-> "next"]
    /\ UNCHANGED <<discovered_devices, devOrder, device_data_cache, cacheOrder,
                   websocket_clients, probes, sweep, agg, now, cycle>>

\* Lines 256-257 and the return to fetch_device_data (lines 227-232), r being
\* what the removals did and f the frame of the broadcast.
Pruned(f, r) ==
    /\ websocket_clients' = r.clients
    /\ probes' = [probes EXCEPT ![f.slot] =
                    IF r.raised
                    THEN AfterBroadcastRaised([probes[f.slot] EXCEPT !.pc = "loop"])
                    ELSE IdleProbe]
    /\ last' = [op |-> "broadcast_update",
                step |-> IF r.raised THEN "raised" ELSE "done",
                started |-> f.started, attempted |-> f.attempted,
                failed |-> f.disconnected, clients |-> websocket_clients,
                message |-> f.message]

\* The send in flight returns or raises and the list iterator is exhausted:
\* the failed sockets are removed and broadcast_update returns to the probe.
CastEnd(fails) ==
    /\ LoopFree
    /\ cast.pc = "send"
    /\ cast.pos > Len(websocket_clients)
    /\ outbox' = SendDone(fails).outbox
    /\ cast' = IdleCast
    /\ Pruned(SendDone(fails).frame,
              RemoveAll(websocket_clients, SendDone(fails).frame.disconnected))
    /\ UNCHANGED <<discovered_devices, devOrder, device_data_cache, cacheOrder,
                   sweep, agg, now, cycle>>

\* An end of the pair loop that also drops the peer's cached telemetry.
Exhausted_ClearingCache(s) ==
    /\ LoopFree
    /\ probes[s].pc = "loop"
    /\ probes[s].pairs = << >>
    /\ discovered_devices' =
          IF probes[s].dev.orphan THEN discovered_devices
          ELSE [discovered_devices EXCEPT ![probes[s].id].status = "error"]
    /\ device_data_cache' = Del(device_data_cache, {probes[s].id})
    /\ cacheOrder' = OrderDel(cacheOrder, {probes[s].id})
    /\ last' = [op |-> "fetch_device_data", step |-> "exhausted",
                id |-> probes[s].id, frame |-> probes[s]]
    /\ probes' = [probes EXCEPT ![s] = IdleProbe]
    /\ UNCHANGED <<devOrder, websocket_clients, sweep, agg, cast, cycle, outbox, now>>

\* Every pair failed: lines 234-236.
Exhausted(s) ==
    /\ LoopFree
    /\ probes[s].pc = "loop"
    /\ probes[s].pairs = << >>
    /\ discovered_devices' =
          IF probes[s].dev.orphan THEN discovered_devices
          ELSE [discovered_devices EXCEPT ![probes[s].id].status = "error"]
    /\ last' = [op |-> "fetch_device_data", step |-> "exhausted",
                id |-> probes[s].id, frame |-> probes[s]]
    /\ probes' = [probes EXCEPT ![s] = IdleProbe]
    /\ UNCHANGED <<devOrder, device_data_cache, cacheOrder, websocket_clients,
                   sweep, agg, cast, cycle, outbox, now>>

-----------------------------------------------------------------------------
(* periodic_fetch: one pass of the loop body (lines 396-405) *)

\* A cycle that calls fetch_device_data for the first key only.
Tasks_FirstOnly(order) == SubSeq(order, 1, 1)

\* Lines 397-399: one fetch_device_data call per key of the registry.
Tasks(order) == order

\* The sleep of line 405 is over (every probe of the cycle before has
\* returned, line 402), the keys are read and gather starts one task per key.
PeriodicFetch ==
    /\ LoopFree
    /\ cast.pc = "idle"
    /\ \A s \in Slots : probes[s].pc = "idle"
    /\ devOrder # << >>
    /\ Len(devOrder) <= NumProbes
    /\ probes' = [s \in Slots |->
                    IF s <= Len(Tasks(devOrder))
                    THEN [IdleProbe EXCEPT !.pc = "scheduled",
                                           !.id = Tasks(devOrder)[s]]
                    ELSE IdleProbe]
    /\ last' = [op |-> "periodic_fetch", step |-> "gather",
                ids |-> Tasks(devOrder)]
    /\ UNCHANGED <<discovered_devices, devOrder, device_data_cache, cacheOrder,
                   websocket_clients, sweep, agg, cast, cycle, outbox, now>>

\* Lines 396-398: the sleep is over and the iteration of the keys starts.
CycleBegin ==
    /\ LoopFree
    /\ cast.pc = "idle"
    /\ \A s \in Slots : probes[s].pc = "idle"
    /\ Len(devOrder) <= NumProbes
    /\ cycle' = [IdleCycle EXCEPT !.pc = "iter", !.pos = 1,
                                  !.size = Len(devOrder),
                                  !.started = devOrder]
    /\ last' = [op |-> "periodic_fetch", step |-> "begin"]
    /\ UNCHANGED <<discovered_devices, devOrder, device_data_cache, cacheOrder,
                   websocket_clients, probes, sweep, agg, cast, outbox, now>>

\* The iterator of line 398 is advanced and line 399 runs on the key.  A dict
\* whose size changed since the iteration began raises RuntimeError, which
\* line 407 catches: the coroutines made so far are dropped and the loop
\* sleeps (line 409).
CycleNext ==
    /\ cycle.pc = "iter"
    /\ Len(devOrder) # cycle.size \/ cycle.pos <= cycle.size
    /\ IF Len(devOrder) # cycle.size
       THEN /\ cycle' = IdleCycle
            /\ last' = [op |-> "periodic_fetch", step |-> "raised",
                        ids |-> << >>]
       ELSE /\ cycle' = [cycle EXCEPT !.pos = @ + 1,
                                      !.tasks = Append(@, devOrder[cycle.pos])]
            /\ last' = [op |-> "periodic_fetch", step |-> "task",
                        id |-> devOrder[cycle.pos]]
    /\ UNCHANGED <<discovered_devices, devOrder, device_data_cache, cacheOrder,
                   websocket_clients, probes, sweep, agg, cast, outbox, now>>

\* The iteration is over: lines 401-402, gather starts one task per
\* coroutine of `tasks`.
CycleGather ==
    /\ cycle.pc = "iter"
    /\ Len(devOrder) = cycle.size
    /\ cycle.pos > cycle.size
    /\ probes' = [s \in Slots |->
                    IF s <= Len(cycle.tasks)
                    THEN [IdleProbe EXCEPT !.pc = "scheduled",
                                           !.id = cycle.tasks[s]]
                    ELSE IdleProbe]
    /\ cycle' = IdleCycle
    /\ last' = [op |-> "periodic_fetch", step |-> "gather",
                ids |-> cycle.tasks]
    /\ UNCHANGED <<discovered_devices, devOrder, device_data_cache, cacheOrder,
                   websocket_clients, sweep, agg, cast, outbox, now>>

\* The task in slot s, created by gather or by add_service, starts to run.
RunTask(s) ==
    /\ probes[s].pc = "scheduled"
    /\ FetchDeviceData(s, probes[s].id)

\* The liveness request of the probe in slot s is answered, one way or the
\* other (the client's timeout of line 165 bounds the wait).
LivenessAnswered(s, responses) ==
    \/ LivenessFails(s)
    \/ LivenessOk(s, responses, {})

-----------------------------------------------------------------------------
(* cleanup_stale_devices: one pass of the loop body (lines 417-430) *)

\* The clock advances.
Tick ==
    /\ LoopFree
    /\ now < MaxTime
    /\ now' = now + 1
    /\ last' = [op |-> "tick"]
    /\ UNCHANGED <<discovered_devices, devOrder, device_data_cache, cacheOrder,
                   websocket_clients, probes, sweep, agg, cast, cycle, outbox>>

\* Lines 421-424 for one record: whether line 425 is to run.
IsStale(device, cutoff) ==
    /\ IsSome(device.last_successful_fetch)
    /\ The(device.last_successful_fetch) < cutoff
    /\ device.status # "offline"

\* Lines 417-420: the sleep is over, cutoff is taken, the iteration starts.
SweepBegin ==
    /\ LoopFree
    /\ sweep' = [IdleSweep EXCEPT !.pc = "iter", !.cutoff = now - TTLMinutes,
                                  !.pos = 1, !.size = Len(devOrder)]
    /\ last' = [op |-> "cleanup", step |-> "begin"]
    /\ UNCHANGED <<discovered_devices, devOrder, device_data_cache, cacheOrder,
                   websocket_clients, probes, agg, cast, cycle, outbox, now>>

\* The iterator of line 420 is advanced and lines 421-424 run on the record.
\* A dict whose size changed since the iteration began raises RuntimeError,
\* which line 432 catches.
SweepNext ==
    /\ sweep.pc = "iter"
    /\ Len(devOrder) # sweep.size \/ sweep.pos <= sweep.size
    /\ IF Len(devOrder) # sweep.size
       THEN /\ sweep' = IdleSweep
            /\ last' = [op |-> "cleanup", step |-> "raised"]
       ELSE LET device_id == devOrder[sweep.pos]
                hit == IsStale(discovered_devices[device_id], sweep.cutoff)
            IN /\ sweep' = [sweep EXCEPT !.cur = RefTo(device_id),
                                         !.pc = IF hit THEN "write" ELSE "iter",
                                         !.pos = IF hit THEN @ ELSE @ + 1]
               /\ last' = [op |-> "cleanup", step |-> "checked", id |-> device_id,
                           hit |-> hit, cutoff |-> sweep.cutoff,
                           device |-> discovered_devices[device_id]]
    /\ UNCHANGED <<discovered_devices, devOrder, device_data_cache, cacheOrder,
                   websocket_clients, probes, agg, cast, cycle, outbox, now>>

\* Lines 425-426 on the record line 424 accepted.
SweepWrite ==
    /\ sweep.pc = "write"
    /\ LET before == Deref(discovered_devices, sweep.cur)
           w == WriteRef(discovered_devices, sweep.cur,
                         [before EXCEPT !.status = "stale"])
       IN /\ discovered_devices' = w.reg
          /\ sweep' = [sweep EXCEPT !.pc = "iter", !.pos = @ + 1, !.stale = TRUE,
                                    !.cur = NoRef]
          /\ last' = [op |-> "cleanup", step |-> "marked", id |-> sweep.cur.id,
                      orphan |-> sweep.cur.orphan, before |-> before,
                      cutoff |-> sweep.cutoff]
    /\ UNCHANGED <<devOrder, device_data_cache, cacheOrder, websocket_clients,
                   probes, agg, cast, cycle, outbox, now>>

\* Lines 428-432: b is what broadcast_update did, if it was called.
SweepBroadcast(b) ==
    /\ device_data_cache' = b.cache
    /\ websocket_clients' = IF sweep.stale THEN b.clients ELSE websocket_clients
    /\ outbox' = Delivered(outbox, b)
    /\ last' = [op |-> "cleanup", step |-> "end", stale |-> sweep.stale,
                raised |-> b.raised]

\* The iteration is over: lines 428-430, and an exception of broadcast_update
\* is caught at line 432.
SweepEnd(failing) ==
    /\ sweep.pc = "iter"
    /\ Len(devOrder) = sweep.size
    /\ sweep.pos > sweep.size
    /\ SweepBroadcast(BroadcastUpdate(discovered_devices, devOrder,
                                      device_data_cache, cacheOrder,
                                      IF sweep.stale THEN websocket_clients
                                      ELSE << >>,
                                      failing))
    /\ sweep' = IdleSweep
    /\ UNCHANGED <<discovered_devices, devOrder, cacheOrder, probes, agg, cast, cycle, now>>

-----------------------------------------------------------------------------
(* GET /api/all: get_aggregated_data, cut where it reads the registry *)

\* Lines 261-266: the lists are empty, the iteration starts.
AggBegin ==
    /\ LoopFree
    /\ agg' = [IdleAgg EXCEPT !.pc = "devices", !.pos = 1, !.size = Len(devOrder)]
    /\ last' = [op |-> "get_aggregated_data", step |-> "begin"]
    /\ UNCHANGED <<discovered_devices, devOrder, device_data_cache, cacheOrder,
                   websocket_clients, probes, sweep, cast, cycle, outbox, now>>

\* The iterator of line 266 is advanced and lines 267-278 list the device; a
\* dict whose size changed raises RuntimeError out of the call.
AggNext ==
    /\ agg.pc = "devices"
    /\ Len(devOrder) # agg.size \/ agg.pos <= agg.size
    /\ IF Len(devOrder) # agg.size
       THEN /\ agg' = IdleAgg
            /\ last' = [op |-> "get_aggregated_data", step |-> "raised"]
       ELSE LET device_id == devOrder[agg.pos]
            IN /\ agg' = [agg EXCEPT
                            !.pc = "placeholder", !.cur = RefTo(device_id),
                            !.lists.devices =
                                Append(@, DeviceEntry(device_id,
                                                      discovered_devices[device_id]))]
               /\ last' = [op |-> "get_aggregated_data", step |-> "listed"]
    /\ UNCHANGED <<discovered_devices, devOrder, device_data_cache, cacheOrder,
                   websocket_clients, probes, sweep, cast, cycle, outbox, now>>

\* Lines 281-313 on the same device_info.
AggPlaceholder ==
    /\ agg.pc = "placeholder"
    /\ agg' = [agg EXCEPT
                 !.pc = "devices", !.pos = @ + 1, !.cur = NoRef,
                 !.lists = WithPlaceholder(@, agg.cur.id,
                                           Deref(discovered_devices, agg.cur))]
    /\ last' = [op |-> "get_aggregated_data", step |-> "placeholder"]
    /\ UNCHANGED <<discovered_devices, devOrder, device_data_cache, cacheOrder,
                   websocket_clients, probes, sweep, cast, cycle, outbox, now>>

\* The first loop is over: the second loop starts (line 316).
AggCacheBegin ==
    /\ agg.pc = "devices"
    /\ Len(devOrder) = agg.size
    /\ agg.pos > agg.size
    /\ agg' = [agg EXCEPT !.pc = "cache", !.pos = 1]
    /\ last' = [op |-> "get_aggregated_data", step |-> "cache"]
    /\ UNCHANGED <<discovered_devices, devOrder, device_data_cache, cacheOrder,
                   websocket_clients, probes, sweep, cast, cycle, outbox, now>>

\* Lines 317-335 for the next key of device_data_cache, m being their outcome.
Merged(device_id, m) ==
    /\ device_data_cache' = [device_data_cache EXCEPT ![device_id] = m.cached]
    /\ agg' = IF m.raised THEN IdleAgg
              ELSE [agg EXCEPT !.pos = @ + 1, !.lists = m.lists]
    /\ last' = [op |-> "get_aggregated_data",
                step |-> IF m.raised THEN "raised" ELSE "merged"]

AggMerge ==
    /\ agg.pc = "cache"
    /\ agg.pos <= Len(cacheOrder)
    /\ Merged(cacheOrder[agg.pos],
              MergeCached(discovered_devices, cacheOrder[agg.pos],
                          device_data_cache[cacheOrder[agg.pos]], agg.lists))
    /\ UNCHANGED <<discovered_devices, devOrder, cacheOrder, websocket_clients,
                   probes, sweep, cast, cycle, outbox, now>>

\* Lines 337-343: connection_count is read from the registry and the dict is
\* returned.
AggReturn ==
    /\ agg.pc = "cache"
    /\ agg.pos > Len(cacheOrder)
    /\ agg' = IdleAgg
    /\ last' = [op |-> "get_aggregated_data", step |-> "returned",
                data |-> Snapshot(agg.lists, ConnectionCount(discovered_devices))]
    /\ UNCHANGED <<discovered_devices, devOrder, device_data_cache, cacheOrder,
                   websocket_clients, probes, sweep, cast, cycle, outbox, now>>

\* The call returns, or raises, a being what it did.
Answer(a) ==
    /\ device_data_cache' = a.cache
    /\ last' = IF a.raised
               THEN [op |-> "get_aggregated_data", step |-> "raised"]
               ELSE [op |-> "get_aggregated_data", step |-> "returned",
                     data |-> a.data]

\* A call of get_aggregated_data during which no listener callback runs.
GetAggregatedData ==
    /\ LoopFree
    /\ Answer(Aggregate(discovered_devices, devOrder, device_data_cache,
                        cacheOrder))
    /\ UNCHANGED <<discovered_devices, devOrder, cacheOrder, websocket_clients,
                   probes, sweep, agg, cast, cycle, outbox, now>>

-----------------------------------------------------------------------------
(* websocket_endpoint *)

\* Lines 535-538, a being what get_aggregated_data did.  An exception of
\* get_aggregated_data or of send_json leaves the handler, and the socket
\* stays in websocket_clients.
InitialSent(c, sendFails, a) ==
    /\ device_data_cache' = a.cache
    /\ outbox' = [outbox EXCEPT ![c] =
                    IF ~a.raised /\ ~sendFails
                    THEN [handler |-> "recv",
                          sent |-> Some([type |-> "initial", data |-> a.data])]
                    ELSE [handler |-> "dead", sent |-> NoneVal]]
    /\ last' = [op |-> "websocket_endpoint", step |-> "connect", client |-> c,
                ok |-> ~a.raised /\ ~sendFails, called |-> ~a.raised]

\* Lines 531-538: accept, append, send the initial envelope.
WsConnect(c, sendFails) ==
    /\ LoopFree
    /\ outbox[c].handler = "none"
    /\ InitialSent(c, sendFails,
                   Aggregate(discovered_devices, devOrder, device_data_cache,
                             cacheOrder))
    /\ websocket_clients' = Append(websocket_clients, c)
    /\ UNCHANGED <<discovered_devices, devOrder, cacheOrder, probes, sweep, agg, cast, cycle, now>>

\* Lines 546-548: receive_text raises WebSocketDisconnect and the socket is
\* removed; list.remove raises ValueError when the socket is not in the list,
\* and the handler ends either way.
WsDisconnect(c) ==
    /\ LoopFree
    /\ outbox[c].handler = "recv"
    /\ websocket_clients' = SelectSeq(websocket_clients, LAMBDA x : x # c)
    /\ outbox' = [outbox EXCEPT ![c].handler = "dead"]
    /\ last' = [op |-> "websocket_endpoint", step |-> "disconnect", client |-> c,
                raised |-> \A i \in 1..Len(websocket_clients) :
                              websocket_clients[i] # c]
    /\ UNCHANGED <<discovered_devices, devOrder, device_data_cache, cacheOrder,
                   probes, sweep, agg, cast, cycle, now>>

-----------------------------------------------------------------------------
(* register_device *)

\* f"manual-{ip}"
ManualName(ip) == IF ip = "A" THEN "manual-A" ELSE "manual-B"

\* device_info as register_device builds it (lines 581-593); the record has no
\* 'addresses' key, which every reader treats like an empty dict.
ManualDeviceInfo(ip, port, status_data) ==
    [ id |-> Get(status_data, "email", ManualName(ip)),
      email |-> Get(status_data, "email", "unknown"),
      role |-> Get(status_data, "role", "unknown"),
      addresses |-> EmptyDict,
      ip |-> Some(Host(ip, FALSE)),
      port |-> port,
      service_name |-> ManualName(ip),
      status |-> "discovered",
      last_successful_fetch |-> NoneVal,
      working_address |-> NoneVal,
      manual |-> TRUE ]

\* POST /api/register, from the answer to its GET /api/status on.  Anything
\* but a 200 with a JSON object returns an error (lines 606-615); otherwise
\* the record is stored and fetch_device_data is awaited, running in slot s.
RegisterDevice(ip, port, response, s) ==
    /\ LoopFree
    /\ probes[s].pc = "idle"
    /\ UNCHANGED <<device_data_cache, cacheOrder, websocket_clients, outbox, now,
                   sweep, agg, cast, cycle>>
    /\ IF response.kind # "json" \/ ~response.isdict
       THEN /\ UNCHANGED <<discovered_devices, devOrder, probes>>
            /\ last' = [op |-> "register_device", ip |-> ip, status |-> "error"]
       ELSE LET device_info == ManualDeviceInfo(ip, port, response.body)
                device_id == device_info.id
                gone == {device_id} \cap DOMAIN discovered_devices
                b == BeginFetch(Put(discovered_devices, device_id, device_info),
                                device_id)
            IN /\ discovered_devices' = b.reg
               /\ devOrder' = OrderPut(devOrder, device_id)
               /\ probes' = [DetachProbes(gone) EXCEPT ![s] = b.frame]
               /\ last' = [op |-> "register_device", ip |-> ip,
                           status |-> "success", id |-> device_id]

-----------------------------------------------------------------------------
(* Inputs *)

TxtD1 == [deviceId |-> "d1", email |-> "e1", role |-> "anchor"]
TxtD2 == [deviceId |-> "d2", email |-> "e2", role |-> "navigator"]
TxtNoId == [email |-> "e1", role |-> "anchor"]

V4A == << [len |-> 4, addr |-> "A"] >>
V4V6 == << [len |-> 4, addr |-> "A"], [len |-> 16, addr |-> "B"] >>

\* An address list none of whose entries has 4 or 16 bytes.
Unparseable == << [len |-> 6, addr |-> "X"] >>

Info(raw, port, txt) == Some([addresses |-> raw, port |-> port, properties |-> txt])

\* A response of the device: kind as the code tells responses apart, and for
\* a parsed body whether it is a list (a dict) and its content.
Response(kind, islist, isdict, body) ==
    [kind |-> kind, islist |-> islist, isdict |-> isdict, body |-> body]

Failed == Response("exception", FALSE, FALSE, << >>)

\* A 200 whose body parses to a dict.
JsonDict(d) == Response("json", FALSE, TRUE, d)

\* A 200 whose body parses to a list.
JsonList(items) == Response("json", TRUE, FALSE, items)

\* Items of a device's list: a dict with an id, and a JSON scalar.
It(id) == Item(TRUE, Some(id))
Scalar == Item(FALSE, NoneVal)

NoData == << Failed, Failed, Failed, Failed >>

-----------------------------------------------------------------------------
(* The listener and probes, no subscriber *)

\* The announcements: one device (d1) under two service names, and a service
\* (n1) announced without deviceId, or not resolved.
DiscoveryEvents ==
    { << "n1", Info(V4A, 8080, TxtD1) >>,
      << "n2", Info(V4A, 8080, TxtD1) >>,
      << "n1", Info(V4A, 8080, TxtNoId) >>,
      << "n1", NoneVal >> }

\* What the device at A:8080 answers to register_device's GET /api/status.
ManualAnswers == { JsonDict([email |-> "d1", role |-> "anchor"]), Failed }

NextDiscovery ==
    \/ \E e \in DiscoveryEvents : AddService(e[1], e[2], FALSE, 1)
    \/ \E e \in DiscoveryEvents : AddService(e[1], e[2], TRUE, 1)
    \/ \E name \in Names : RemoveService(name)
    \/ \E r \in ManualAnswers : RegisterDevice("A", 8080, r, 1)
    \/ \E device_id \in Startable(1) : FetchDeviceData(1, device_id)
    \/ LivenessFails(1)
    \/ LivenessOk(1, NoData, {})
    \/ Exhausted(1)

SpecDiscovery == Init /\ [][NextDiscovery]_vars

\* The registry key an announcement is stored under: the TXT record's
\* deviceId, or the service name when there is none.
KeyOf(name, info) ==
    IF "deviceId" \in DOMAIN The(info).properties
    THEN The(info).properties.deviceId ELSE name

\* The last step was add_service with a ServiceInfo that resolved.
Appeared == last.op = "add_service" /\ IsSome(last.info)

\* C1: right after add_service has processed an announcement that resolved,
\* the registry holds a record under the deviceId of the TXT record (under the
\* service name when there is none), its status is discovered or connected
\* and its service_name is the announced name.
C1_AppearedIsRegistered ==
    Appeared =>
        LET key == KeyOf(last.name, last.info)
        IN /\ key \in DOMAIN discovered_devices
           /\ discovered_devices[key].status \in {"discovered", "connected"}
           /\ discovered_devices[key].service_name = last.name

\* C1 witness: an announcement without deviceId was processed while the
\* registry already held another record.
C1_Witness ==
    /\ Appeared
    /\ "deviceId" \notin DOMAIN The(last.info).properties
    /\ last.name \in DOMAIN discovered_devices
    /\ Cardinality(DOMAIN discovered_devices) > 1

\* C2 (as claimed): no two records of the registry have the same service_name.
C2_UniqueSourceName ==
    \A a, b \in DOMAIN discovered_devices :
        a # b => discovered_devices[a].service_name
                   # discovered_devices[b].service_name

\* C3 (as claimed): when add_service processes an announcement of name N
\* while another key holds a record whose service_name is N, exactly one
\* record, one of that name, leaves the registry, and every record other than
\* that one and the announced key's own is as before.
C3_EvictsTheStaleRecord ==
    [][ (last'.op = "add_service" /\ IsSome(last'.info)) =>
          LET key == KeyOf(last'.name, last'.info)
              stale == { d \in DOMAIN discovered_devices :
                           /\ d # key
                           /\ discovered_devices[d].service_name = last'.name }
              removed == (DOMAIN discovered_devices) \ DOMAIN discovered_devices'
          IN stale # {} =>
                /\ Cardinality(removed) = 1
                /\ removed \subseteq stale
                /\ \A d \in (DOMAIN discovered_devices) \ (removed \cup {key}) :
                      discovered_devices'[d] = discovered_devices[d]
      ]_vars

-----------------------------------------------------------------------------
(* Two anchors probed one probe at a time, no subscriber *)

TxtD2Anchor == [deviceId |-> "d2", email |-> "e2", role |-> "anchor"]

ProbeEvents ==
    { << "n1", Info(V4V6, 8080, TxtD1) >>,
      << "n2", Info(V4A, 8080, TxtD2Anchor) >> }

\* The answers to the four fetches: only /api/anchors answers.
ProbePayloads ==
    { << Failed, JsonList(a), Failed, Failed >> :
        a \in { << >>, << It("d1") >>, << It("x"), It("d1") >> } }

NextProbe ==
    \/ \E e \in ProbeEvents : AddService(e[1], e[2], FALSE, 1)
    \/ \E e \in ProbeEvents : AddService(e[1], e[2], TRUE, 1)
    \/ \E name \in Names : RemoveService(name)
    \/ \E device_id \in {"d1", "d2"} : FetchDeviceData(1, device_id)
    \/ LivenessFails(1)
    \/ \E r \in ProbePayloads : LivenessOk(1, r, {})
    \/ Exhausted(1)

SpecProbe == Init /\ [][NextProbe]_vars

\* The last step ended a probe none of whose liveness requests was answered 200.
ProbeExhausted(l) ==
    l.op = "fetch_device_data" /\ l.step = "exhausted" /\ l.frame.okAt = 0

\* C9 (as claimed): after a probe that reached no pair, the peer's status is
\* error and its record's error detail lists every pair the probe attempted.
C9_ErrorDetailListsPairs ==
    ProbeExhausted(last) =>
        /\ last.id \in DOMAIN discovered_devices
        /\ discovered_devices[last.id].status = "error"
        /\ Get(discovered_devices[last.id], "last_error_detail", << >>)
             = last.frame.issued

Range(seq) == { seq[i] : i \in 1..Len(seq) }

ListKinds == {"anchors", "navigators"}
RoleOfList(kind) == IF kind = "anchors" THEN "anchor" ELSE "navigator"

\* The position of key k in an insertion order.
PosIn(order, k) == CHOOSE i \in 1..Len(order) : order[i] = k

\* The ids of the entries that get into the merged list `kind` before the
\* k-th item cached for device_id: the placeholders, the items cached under
\* the keys before device_id, and the items before it in its own list.
EarlierIds(reg, cache, corder, kind, device_id, k) ==
    { Some(d) : d \in { x \in DOMAIN reg :
                          /\ reg[x].status \in PlaceholderStatuses
                          /\ reg[x].role = RoleOfList(kind) } }
    \cup UNION { { cache[corder[i]][kind][j].id :
                      j \in 1..Len(cache[corder[i]][kind]) } :
                    i \in 1..(PosIn(corder, device_id) - 1) }
    \cup { cache[device_id][kind][j].id : j \in 1..(k - 1) }

-----------------------------------------------------------------------------
(* One anchor with two addresses, probed while a WebSocket client subscribes *)

\* The answers to the four fetches: /api/anchors answers a list of dicts, or
\* a list holding a JSON scalar.
BroadcastPayloads ==
    { << Failed, JsonList(a), Failed, Failed >> :
        a \in { << It("x") >>, << Scalar >> } }

NextBroadcast ==
    \/ \E inLoop \in BOOLEAN : AddService("n1", Info(V4V6, 8080, TxtD1), inLoop, 1)
    \/ RemoveService("n1")
    \/ FetchDeviceData(1, "d1")
    \/ LivenessFails(1)
    \/ \E r \in BroadcastPayloads, failing \in SUBSET {1} :
          LivenessOk(1, r, failing)
    \/ Exhausted(1)
    \/ \E sendFails \in BOOLEAN : WsConnect(1, sendFails)
    \/ WsDisconnect(1)

SpecBroadcast == Init /\ [][NextBroadcast]_vars

\* A frame has issued no liveness request after the first one answered 200.
StoppedAtFirstSuccess(f) == f.okAt # 0 => Len(f.issued) = f.okAt

\* C4 (as claimed): once a liveness request of a probe was answered 200, the
\* probe issues no request to a later pair of its order, whatever happens in
\* the fetch, the cache write and the broadcast that follow.
C4_StopsAtFirstSuccess ==
    /\ \A s \in Slots : StoppedAtFirstSuccess(probes[s])
    /\ last.op = "fetch_device_data" /\ last.step # "skipped"
         /\ last.step # "no_addresses"
         => StoppedAtFirstSuccess(last.frame)

\* C8 (as claimed): when a probe in which a liveness request was answered 200
\* completes, the registry's record of the peer is connected and carries the
\* working address and port, the cache holds an entry of this instant with
\* the four sub-resources, and every socket in websocket_clients was sent an
\* update whose snapshot lists the peer connected and counts it.
C8_SuccessfulProbeCompletes ==
    ( /\ last.op = "fetch_device_data"
      /\ last.step \in {"connected", "exhausted"}
      /\ last.frame.okAt # 0 )
    => LET id == last.id
           pair == last.frame.issued[last.frame.okAt]
       IN /\ id \in DOMAIN discovered_devices
          /\ discovered_devices[id].status = "connected"
          /\ discovered_devices[id].working_address = Some(pair.address)
          /\ discovered_devices[id].port = pair.port
          /\ id \in DOMAIN device_data_cache
          /\ device_data_cache[id].timestamp = now
          /\ {"status", "anchors", "navigators", "distances"}
                \subseteq DOMAIN device_data_cache[id]
          /\ \A c \in Range(websocket_clients) :
               /\ IsSome(outbox[c].sent)
               /\ The(outbox[c].sent).type = "update"
               /\ The(outbox[c].sent).data.connection_count >= 1
               /\ \E e \in Range(The(outbox[c].sent).data.devices) :
                     e.id = id /\ e.status = "connected"

-----------------------------------------------------------------------------
(* The sweeper running while peers are announced, removed and probed *)

SweepEvents ==
    { << "n1", Info(V4A, 8080, TxtD1) >>,
      << "n2", Info(V4A, 8080, TxtD2) >> }

NextSweep ==
    \/ \E e \in SweepEvents : AddService(e[1], e[2], FALSE, 1)
    \/ RemoveService("n1")
    \/ FetchDeviceData(1, "d1")
    \/ LivenessFails(1)
    \/ LivenessOk(1, NoData, {})
    \/ Exhausted(1)
    \/ Tick
    \/ SweepBegin
    \/ SweepNext
    \/ SweepWrite
    \/ SweepEnd({})

SpecSweep == Init /\ [][NextSweep]_vars

\* now - lastSuccessfulProbe > TTL, for a record that has the timestamp
Expired(device, t) ==
    /\ IsSome(device.last_successful_fetch)
    /\ t - The(device.last_successful_fetch) > TTLMinutes

\* C6 (as claimed): a step of the sweeper changes a connected record to stale
\* only if now - lastSuccessfulProbe > TTL, it decides to mark every connected
\* record for which that holds, and it never changes the status of an offline
\* record.
C6_SweepMarksExpiredConnectedOnly ==
    [][ last'.op = "cleanup" =>
          /\ \A d \in DOMAIN discovered_devices \cap DOMAIN discovered_devices' :
               /\ discovered_devices[d].status = "offline"
                    => discovered_devices'[d].status = "offline"
               /\ ( /\ discovered_devices[d].status = "connected"
                    /\ discovered_devices'[d].status = "stale" )
                    => Expired(discovered_devices[d], now)
          /\ ( /\ last'.step = "checked"
               /\ last'.device.status = "connected"
               /\ Expired(last'.device, now) )
               => last'.hit
      ]_vars

-----------------------------------------------------------------------------
(* GET /api/all while peers are announced, removed and probed *)

AggregateEvents ==
    { << "n1", Info(V4A, 8080, TxtD1) >>,
      << "n2", Info(V4A, 8080, TxtD2) >> }

NextAggregate ==
    \/ \E e \in AggregateEvents : AddService(e[1], e[2], FALSE, 1)
    \/ \E name \in Names : RemoveService(name)
    \/ FetchDeviceData(1, "d1")
    \/ LivenessFails(1)
    \/ LivenessOk(1, << Failed, JsonList(<< It("x") >>), Failed, Failed >>, {})
    \/ Exhausted(1)
    \/ AggBegin
    \/ AggNext
    \/ AggPlaceholder
    \/ AggCacheBegin
    \/ AggMerge
    \/ AggReturn

SpecAggregate == Init /\ [][NextAggregate]_vars

\* The last step returned a snapshot.
Returned(l) == l.op = "get_aggregated_data" /\ l.step = "returned"

\* C10 (as claimed): every snapshot returned is consistent in itself, also
\* when listener callbacks ran while it was built: connection_count is the
\* number of entries of its devices list with status connected, and every
\* placeholder of its lists belongs to a device that its devices list shows
\* with status error, offline or stale.
C10_SnapshotConsistent ==
    Returned(last) =>
        /\ last.data.connection_count =
              Cardinality({ i \in 1..Len(last.data.devices) :
                              last.data.devices[i].status = "connected" })
        /\ \A kind \in ListKinds :
             \A p \in Range(last.data[kind]) :
               p.placeholder =>
                 \E e \in Range(last.data.devices) :
                    /\ Some(e.id) = p.id
                    /\ e.status \in {"error", "offline", "stale"}

-----------------------------------------------------------------------------
(* Snapshots of the states the listener, the probes of d1 and the sweeper reach *)

SnapshotEvents ==
    { << "n1", Info(V4A, 8080, TxtD1) >>,
      << "n2", Info(V4A, 8080, TxtD2) >> }

\* /api/anchors and /api/navigators answer lists of dicts.
SnapshotPayloads ==
    { << Failed, JsonList(<< It("d1") >>), JsonList(<< It("d2") >>), Failed >>,
      << Failed, JsonList(<< It("x") >>), JsonList(<< >>), Failed >> }

NextSnapshot ==
    \/ \E e \in SnapshotEvents : AddService(e[1], e[2], FALSE, 1)
    \/ \E name \in Names : RemoveService(name)
    \/ FetchDeviceData(1, "d1")
    \/ LivenessFails(1)
    \/ \E r \in SnapshotPayloads : LivenessOk(1, r, {})
    \/ Exhausted(1)
    \/ Tick
    \/ SweepBegin
    \/ SweepNext
    \/ SweepWrite
    \/ SweepEnd({})
    \/ GetAggregatedData

SpecSnapshot == Init /\ [][NextSnapshot]_vars

\* No cached item of list `kind` has the id.
NoCachedItem(cache, kind, id) ==
    \A d \in DOMAIN cache :
       \A j \in 1..Len(cache[d][kind]) : cache[d][kind][j].id # Some(id)

\* The positions of the entries of a merged list that have the id.
EntriesOf(list, id) == { i \in 1..Len(list) : list[i].id = Some(id) }

C13_RemovedNameIsOffline ==
    [][last'.op = "remove_service" =>
         \A id \in DOMAIN discovered_devices' :
             IF discovered_devices'[id].service_name = last'.name
             THEN discovered_devices'[id].status = "offline"
             ELSE /\ id \in DOMAIN discovered_devices
                  /\ discovered_devices'[id] = discovered_devices[id]]_vars

\* The last step was the start of a fetch_device_data call (lines 141-163).
Entered(l) ==
    l.op = "fetch_device_data" /\ l.step \in {"skipped", "no_addresses", "started"}

\* C14: a fetch_device_data call for an id that is not in the registry, or
\* whose record is offline, issues no request and leaves the registry, the
\* cache and websocket_clients as they were.
C14_OfflineOrUnknownIsNotProbed ==
    [][(/\ Entered(last')
        /\ \/ last'.id \notin DOMAIN discovered_devices
           \/ discovered_devices[last'.id].status = "offline")
       => /\ last'.frame.pc = "idle"
          /\ last'.frame.issued = << >>
          /\ \A s \in Slots : probes'[s] = probes[s] \/ probes'[s] = IdleProbe
          /\ discovered_devices' = discovered_devices
          /\ devOrder' = devOrder
          /\ device_data_cache' = device_data_cache
          /\ websocket_clients' = websocket_clients]_vars

\* C14 happens: a call for an offline record that has addresses.
C14_Witness ==
    /\ Entered(last)
    /\ last.step = "skipped"
    /\ last.id \in DOMAIN discovered_devices
    /\ discovered_devices[last.id].status = "offline"
    /\ discovered_devices[last.id].addresses # EmptyDict

\* C14 happens as well for an id whose record was evicted after add_service
\* had created the task.
C14_WitnessUnknown ==
    /\ Entered(last)
    /\ last.id \notin DOMAIN discovered_devices

\* C15 (as claimed): when a probe has completed and no other probe is in
\* flight, the registry's record of the probed id holds the status that probe
\* wrote, whatever announcements arrived while the probe was running.
C15_LastCompletedWriteWins ==
    (/\ last.op = "fetch_device_data"
     /\ last.step \in {"connected", "exhausted"}
     /\ last.id \in DOMAIN discovered_devices
     /\ \A s \in Slots : probes[s].pc = "idle")
    => discovered_devices[last.id].status =
           (IF last.step = "connected" THEN "connected" ELSE "error")

\* C16 (as claimed): accesses to the registry exclude one another: no listener
\* callback reads or writes the registry between the read by which
\* cleanup_stale_devices tests a record (line 424) and its write to that
\* record (line 425).
C16_AccessesExcludeOneAnother ==
    [][last'.op \in {"add_service", "remove_service"} => sweep.pc # "write"]_vars

-----------------------------------------------------------------------------
(* What stays in the registry and in the cache *)

RetentionEvents ==
    { << "n1", Info(V4A, 8080, TxtD1) >>,
      << "n2", Info(V4A, 8080, TxtD1) >>,
      << "n1", Info(V4A, 8080, TxtNoId) >> }

\* The peers answer their liveness request until the clock first advances.
NextRetention ==
    \/ \E e \in RetentionEvents : AddService(e[1], e[2], FALSE, 1)
    \/ RemoveService("n1")
    \/ \E r \in ManualAnswers : RegisterDevice("A", 8080, r, 1)
    \/ FetchDeviceData(1, "n1")
    \/ LivenessFails(1)
    \/ now = 0 /\ LivenessOk(1, NoData, {})
    \/ Exhausted(1)
    \/ Tick
    \/ SweepBegin
    \/ SweepNext
    \/ SweepWrite
    \/ SweepEnd({})

SpecRetention == Init /\ [][NextRetention]_vars

NextCache ==
    \/ \E e \in RetentionEvents : AddService(e[1], e[2], FALSE, 1)
    \/ RemoveService("n1")
    \/ FetchDeviceData(1, "n1")
    \/ LivenessFails(1)
    \/ LivenessOk(1, NoData, {})
    \/ Exhausted(1)
    \/ Tick
    \/ SweepBegin
    \/ SweepNext
    \/ SweepWrite
    \/ SweepEnd({})

SpecCache == Init /\ [][NextCache]_vars

C18_CacheEntriesStay ==
    [][\A id \in DOMAIN device_data_cache :
          /\ id \in DOMAIN device_data_cache'
          /\ device_data_cache'[id] # device_data_cache[id] =>
                /\ last'.op = "fetch_device_data"
                /\ last'.step \in {"connected", "broadcast_raised"}
                /\ last'.id = id
      ]_vars

\* C18 happens: the cache holds the telemetry of a peer whose record was
\* evicted, after a later probe of that peer replaced an earlier entry.
C18_Witness ==
    \E id \in DOMAIN device_data_cache :
        /\ id \notin DOMAIN discovered_devices
        /\ device_data_cache[id].timestamp > 0

-----------------------------------------------------------------------------
(* The periodic prober and announcements that arrive without a running loop *)

PeriodicEvents ==
    { << "n1", Info(V4A, 8080, TxtD1) >>,
      << "n2", Info(V4A, 8080, TxtD2) >> }

NextPeriodic ==
    \/ \E e \in PeriodicEvents : AddService(e[1], e[2], FALSE, 1)
    \/ \E name \in Names : RemoveService(name)
    \/ PeriodicFetch
    \/ \E s \in Slots : RunTask(s)
    \/ \E s \in Slots : LivenessAnswered(s, NoData)
    \/ \E s \in Slots : Exhausted(s)

SpecPeriodic == Init /\ [][NextPeriodic]_vars

\* The event loop runs every task that is ready, the sleep of line 405 ends
\* and every request is answered or times out.
SpecPeriodicFair ==
    /\ SpecPeriodic
    /\ WF_vars(PeriodicFetch)
    /\ \A s \in Slots : /\ WF_vars(RunTask(s))
                        /\ WF_vars(LivenessAnswered(s, NoData))
                        /\ WF_vars(Exhausted(s))

\* add_service has just stored a record under id, with no loop to create the
\* immediate probe on.
AppearedAs(id) ==
    /\ Appeared
    /\ KeyOf(last.name, last.info) = id
    /\ \A s \in Slots : ~(probes[s].pc = "scheduled" /\ probes[s].id = id)

\* A fetch_device_data call for id has just got past line 142.
Probed(id) ==
    /\ last.op = "fetch_device_data"
    /\ last.step \in {"started", "no_addresses"}
    /\ last.id = id

\* id is not in the registry, or its record is offline.
GoneOrOffline(id) ==
    \/ id \notin DOMAIN discovered_devices
    \/ discovered_devices[id].status = "offline"

-----------------------------------------------------------------------------
(* Announcements without a usable address *)

AddressEvents ==
    { << "n1", Info(V4A, 8080, TxtD1) >>,
      << "n1", Info(Unparseable, 8080, TxtD1) >>,
      << "n2", Info(<< >>, 8080, TxtD2) >> }

NextAddresses ==
    \/ \E e \in AddressEvents : AddService(e[1], e[2], FALSE, 1)
    \/ \E e \in AddressEvents : AddService(e[1], e[2], TRUE, 1)
    \/ \E name \in Names : RemoveService(name)
    \/ \E device_id \in Startable(1) : FetchDeviceData(1, device_id)
    \/ LivenessFails(1)
    \/ LivenessOk(1, NoData, {})
    \/ Exhausted(1)

SpecAddresses == Init /\ [][NextAddresses]_vars

\* C20 (as claimed): right after add_service has processed an announcement
\* none of whose addresses parses, the registry holds the peer's record with
\* no address, status error and an error detail that says so.
C20_NoAddressesIsError ==
    (/\ Appeared
     /\ ParseAddresses(The(last.info).addresses, EmptyDict) = EmptyDict)
    => /\ KeyOf(last.name, last.info) \in DOMAIN discovered_devices
       /\ discovered_devices[KeyOf(last.name, last.info)].addresses = EmptyDict
       /\ discovered_devices[KeyOf(last.name, last.info)].status = "error"
       /\ Get(discovered_devices[KeyOf(last.name, last.info)],
              "last_error_detail", "") = "no addresses"

\* The last step started the pair loop of a probe (line 165).
ProbeStarted(l) == l.op = "fetch_device_data" /\ l.step = "started"

\* C22 (as claimed): a probe of a record that has a working_address sends its
\* first liveness request to that address; a probe of a record that has none
\* sends it to the IPv4 address when there is one.
C22_WorkingAddressFirst ==
    (ProbeStarted(last) /\ last.id \in DOMAIN discovered_devices) =>
        LET device == discovered_devices[last.id]
        IN IF IsSome(device.working_address)
           THEN last.frame.pairs[1].address = The(device.working_address)
           ELSE "ipv4" \in DOMAIN device.addresses =>
                    last.frame.pairs[1].address
                      = Host(device.addresses["ipv4"], FALSE)

\* The ports of the pairs of one address, in the order of the pairs.
PortsOf(pairs, address) ==
    LET mine == SelectSeq(pairs, LAMBDA p : p.address = address)
    IN [ i \in 1..Len(mine) |-> mine[i].port ]

\* C23 (as claimed): a probe of a record that no probe has succeeded for yet
\* has, for each of its addresses, the record's port as the first port to try
\* and every port of the list 8080, 8081, 8082, 8083 among the ports to try.
C23_PrimaryPortThenFallbacks ==
    (/\ ProbeStarted(last)
     /\ last.id \in DOMAIN discovered_devices
     /\ discovered_devices[last.id].last_successful_fetch = NoneVal)
    => \A address \in Range(AddressesToTry(discovered_devices[last.id])) :
          /\ PortsOf(last.frame.pairs, address)[1]
               = discovered_devices[last.id].port
          /\ {8080, 8081, 8082, 8083}
               \subseteq Range(PortsOf(last.frame.pairs, address))

\* C24 (as claimed): a record that is offline stays offline in every step
\* that is not an announcement of its own id: no probe and no sweep changes it.
C24_OfflineIsStable ==
    [][\A id \in DOMAIN discovered_devices :
          (/\ discovered_devices[id].status = "offline"
           /\ ~(/\ last'.op = "add_service"
                /\ IsSome(last'.info)
                /\ KeyOf(last'.name, last'.info) = id))
          => /\ id \in DOMAIN discovered_devices'
             /\ discovered_devices'[id].status = "offline"]_vars

\* C25 (as claimed): a probe one of whose liveness requests was answered 200,
\* and which wrote its telemetry, ends with status connected and the entry in
\* the cache, whatever broadcast_update did.
C25_BroadcastFailureKeepsConnected ==
    (/\ last.op = "fetch_device_data"
     /\ last.step \in {"connected", "exhausted"}
     /\ last.frame.okAt # 0
     /\ ~last.frame.dev.orphan)
    => /\ discovered_devices[last.id].status = "connected"
       /\ last.id \in DOMAIN device_data_cache

-----------------------------------------------------------------------------
(* The sweeper and peers that were announced when the clock started *)

\* Every announcement arrives at time 0, so that `now` is the time each record
\* has been in the registry for.
NextGrace ==
    \/ now = 0 /\ \E e \in SweepEvents : AddService(e[1], e[2], FALSE, 1)
    \/ RemoveService("n1")
    \/ FetchDeviceData(1, "d1")
    \/ LivenessFails(1)
    \/ LivenessOk(1, NoData, {})
    \/ Exhausted(1)
    \/ Tick
    \/ SweepBegin
    \/ SweepNext
    \/ SweepWrite
    \/ SweepEnd({})

SpecGrace == Init /\ [][NextGrace]_vars

\* C26 (as claimed): when the sweeper tests a record that is not offline and
\* that no probe has succeeded for, it takes it for stale exactly when the
\* record has been in the registry for longer than the TTL.
C26_NeverProbedExpiresAfterTTL ==
    (/\ last.op = "cleanup"
     /\ last.step = "checked"
     /\ last.device.status # "offline"
     /\ last.device.last_successful_fetch = NoneVal)
    => (last.hit <=> now > TTLMinutes)

-----------------------------------------------------------------------------
(* Snapshots of two anchors whose cached lists share ids *)

\* /api/anchors answers the peer's own id, or a list with a repeated id and
\* the id of the other peer.
MergePayloads ==
    { << Failed, JsonList(a), Failed, Failed >> :
        a \in { << It("d1") >>, << It("x"), It("d2"), It("x") >> } }

NextMerge ==
    \/ \E e \in ProbeEvents : AddService(e[1], e[2], FALSE, 1)
    \/ \E name \in Names : RemoveService(name)
    \/ \E device_id \in Startable(1) : FetchDeviceData(1, device_id)
    \/ LivenessFails(1)
    \/ \E r \in MergePayloads : LivenessOk(1, r, {})
    \/ Exhausted(1)
    \/ GetAggregatedData

SpecMerge == Init /\ [][NextMerge]_vars

\* The cached item is an entry of the merged list.
Kept(list, it) == \E i \in 1..Len(list) : list[i] = it /\ ~list[i].placeholder

\* C27: in a snapshot, a placeholder is the only entry of its list with its
\* id, so a cached item with that id is not in the list; and a cached item is
\* missing from its list only if a placeholder, or an item cached earlier
\* (under an earlier key, or earlier in the same list), has its id.
C27_PlaceholderFirstWriterWins ==
    Returned(last) =>
        \A kind \in ListKinds :
           /\ \A i, j \in 1..Len(last.data[kind]) :
                 (last.data[kind][i].placeholder /\ i # j)
                 => last.data[kind][j].id # last.data[kind][i].id
           /\ \A d \in DOMAIN device_data_cache :
                 \A k \in 1..Len(device_data_cache[d][kind]) :
                    \/ Kept(last.data[kind], device_data_cache[d][kind][k])
                    \/ device_data_cache[d][kind][k].id
                         \in EarlierIds(discovered_devices, device_data_cache,
                                        cacheOrder, kind, d, k)

\* C27 happens: a snapshot holds the placeholder of anchor d2 while an item
\* with id d2 is cached, and holds one of the two cached items with id x.
C27_Witness ==
    /\ Returned(last)
    /\ \E i \in 1..Len(last.data.anchors) :
          /\ last.data.anchors[i].placeholder
          /\ last.data.anchors[i].id = Some("d2")
    /\ \E d \in DOMAIN device_data_cache :
          /\ Len(device_data_cache[d].anchors) = 3
          /\ Kept(last.data.anchors, device_data_cache[d].anchors[1])

-----------------------------------------------------------------------------
(* Probes whose data fetches fail in part, with a subscriber *)

NonOk == Response("non200", FALSE, FALSE, << >>)
Garbled == Response("unparseable", FALSE, FALSE, << >>)

\* The answers to /api/status, /api/anchors, /api/navigators, /api/distances.
PartialPayloads ==
    { << JsonDict([batteryLevel |-> 1]), NonOk, JsonList(<< It("x") >>), Garbled >>,
      << Failed, JsonList(<< It("x") >>), JsonDict([n |-> 1]), JsonDict([n |-> 1]) >>,
      << Failed, JsonList(<< Scalar >>), Failed, Failed >> }

NextPartial ==
    \/ AddService("n1", Info(V4A, 8080, TxtD1), FALSE, 1)
    \/ FetchDeviceData(1, "d1")
    \/ LivenessFails(1)
    \/ \E r \in PartialPayloads : LivenessOk(1, r, {})
    \/ Exhausted(1)
    \/ \E sendFails \in BOOLEAN : WsConnect(1, sendFails)
    \/ WsDisconnect(1)

SpecPartial == Init /\ [][NextPartial]_vars

\* The fetch of a sub-resource failed: exception, non-200, unparseable body,
\* or a body that is not a list where a list is expected.
FetchFailed(r, listExpected) == r.kind # "json" \/ (listExpected /\ ~r.islist)

\* A cached list without what get_aggregated_data writes into its items.
Bare(items) ==
    [ i \in 1..Len(items) |->
        [items[i] EXCEPT !.source_device = NoneVal, !.source_ip = NoneVal] ]

\* The entry holds, for each sub-resource, the fetched value, or the default
\* when its fetch failed.
FieldsIsolated(entry, r) ==
    /\ entry.status = (IF FetchFailed(r[1], FALSE) THEN NoneVal ELSE Some(r[1].body))
    /\ Bare(entry.anchors) = (IF FetchFailed(r[2], TRUE) THEN << >> ELSE r[2].body)
    /\ Bare(entry.navigators) = (IF FetchFailed(r[3], TRUE) THEN << >> ELSE r[3].body)
    /\ entry.distances = (IF FetchFailed(r[4], FALSE) THEN NoneVal ELSE Some(r[4].body))

\* The step in which a liveness request was answered 200 and the data fetched.
DataFetched(l) ==
    l.op = "fetch_device_data" /\ l.step \in {"connected", "broadcast_raised"}

\* The part of C28 about the cache: after the data fetch the entry of the peer
\* has exactly the failed sub-resources at their default.
C28_FieldsIsolated ==
    DataFetched(last) =>
        /\ last.id \in DOMAIN device_data_cache
        /\ FieldsIsolated(device_data_cache[last.id], last.responses)

\* C28 (as claimed): a probe whose liveness request was answered 200 and some
\* of whose data fetches failed has written the cache entry, with exactly the
\* failed sub-resources at their default, and ends with status connected.
C28_PartialDataIsSuccess ==
    /\ C28_FieldsIsolated
    /\ (/\ last.op = "fetch_device_data"
        /\ last.step \in {"connected", "exhausted"}
        /\ last.frame.okAt # 0
        /\ ~last.frame.dev.orphan)
       => discovered_devices[last.id].status = "connected"

\* C29: after add_service has processed an announcement, the record under
\* its key is the announced one: status discovered, no last_successful_fetch,
\* no working_address, whatever the record before held; and a record gets a
\* last_successful_fetch or a working_address only in the step of a probe of
\* its id whose liveness request was answered 200.
C29_AnnouncementReplacesRecord ==
    [][/\ (last'.op = "add_service" /\ IsSome(last'.info)) =>
             LET id == KeyOf(last'.name, last'.info)
             IN /\ id \in DOMAIN discovered_devices'
                /\ discovered_devices'[id].status = "discovered"
                /\ discovered_devices'[id].last_successful_fetch = NoneVal
                /\ discovered_devices'[id].working_address = NoneVal
       /\ \A id \in DOMAIN discovered_devices \cap DOMAIN discovered_devices' :
             (\/ /\ discovered_devices[id].last_successful_fetch = NoneVal
                 /\ discovered_devices'[id].last_successful_fetch # NoneVal
              \/ /\ discovered_devices[id].working_address = NoneVal
                 /\ discovered_devices'[id].working_address # NoneVal)
             => /\ DataFetched(last')
                /\ last'.id = id
      ]_vars

\* C29 happens: an announcement has just replaced the record of a peer whose
\* telemetry an earlier successful probe had cached.
C29_Witness ==
    /\ Appeared
    /\ KeyOf(last.name, last.info) \in DOMAIN device_data_cache
    /\ discovered_devices[KeyOf(last.name, last.info)].status = "discovered"
    /\ discovered_devices[KeyOf(last.name, last.info)].last_successful_fetch
         = NoneVal

\* C30 (as claimed): no step changes the status of a record from discovered
\* or error to stale: the sweeper only marks records that are connected.
C30_StaleOnlyFromConnected ==
    [][\A id \in DOMAIN discovered_devices \cap DOMAIN discovered_devices' :
          discovered_devices[id].status \in {"discovered", "error"}
          => discovered_devices'[id].status # "stale"]_vars

-----------------------------------------------------------------------------
(* The periodic prober reading the keys while the listener thread writes *)

NextCycle ==
    \/ \E e \in PeriodicEvents : AddService(e[1], e[2], FALSE, 1)
    \/ \E name \in Names : RemoveService(name)
    \/ CycleBegin
    \/ CycleNext
    \/ CycleGather
    \/ \E s \in Slots : RunTask(s)
    \/ \E s \in Slots : LivenessAnswered(s, NoData)
    \/ \E s \in Slots : Exhausted(s)

SpecCycle == Init /\ [][NextCycle]_vars

\* The loop body of periodic_fetch has just left lines 397-402, by gather or
\* by an exception.
CycleDone(l) == l.op = "periodic_fetch" /\ l.step \in {"gather", "raised"}

\* A step of the probe in slot s that ends its call without success.
ProbeFailed(l) ==
    l.op = "fetch_device_data" /\ l.step \in {"exhausted", "no_addresses"}

\* C31 (as claimed): every cycle of periodic_fetch starts a probe for every
\* key that was in the registry when the cycle began and whose record is
\* still there and not offline, and a probe that fails leaves the other
\* probes of the cycle as they were.
C31_CycleProbesEveryPeer ==
    [][/\ CycleDone(last') =>
            \A id \in Range(cycle.started) \cap DOMAIN discovered_devices' :
                discovered_devices'[id].status # "offline"
                => \E i \in 1..Len(last'.ids) : last'.ids[i] = id
       /\ ProbeFailed(last') =>
            \A s \in Slots :
                probes'[s] # probes[s] => probes[s].id = last'.id]_vars

-----------------------------------------------------------------------------
(* Announcements of a peer that went offline *)

NextRediscovery ==
    \/ \E e \in PeriodicEvents, inLoop \in BOOLEAN :
          AddService(e[1], e[2], inLoop, 1)
    \/ \E name \in Names : RemoveService(name)
    \/ CycleBegin
    \/ CycleNext
    \/ CycleGather
    \/ \E s \in Slots : RunTask(s)
    \/ \E s \in Slots : LivenessAnswered(s, NoData)
    \/ \E s \in Slots : Exhausted(s)

SpecRediscovery == Init /\ [][NextRediscovery]_vars

\* The event loop runs every task that is ready, the loop of lines 398-399
\* runs on once it has started and every request is answered or times out.
\* The sleeps of lines 405 and 409 end whatever other tasks do: a cycle begins
\* if it can begin again and again (tasks that add_service creates share the
\* slots of the model with the tasks of gather, and do not hold back a cycle
\* in the program).
SpecRediscoveryFair ==
    /\ SpecRediscovery
    /\ SF_vars(CycleBegin)
    /\ WF_vars(CycleNext)
    /\ WF_vars(CycleGather)
    /\ \A s \in Slots : /\ WF_vars(RunTask(s))
                        /\ WF_vars(LivenessAnswered(s, NoData))
                        /\ WF_vars(Exhausted(s))

\* add_service has just processed an announcement for id, whose record was
\* offline.
Reappeared(id) ==
    /\ Appeared
    /\ KeyOf(last.name, last.info) = id
    /\ last.was = "offline"

\* C32: an announcement that resolves for a peer whose record is offline
\* leaves the record in status discovered, and the peer is then probed, by
\* the task add_service created or by a cycle of periodic_fetch, unless it
\* goes offline again before.
C32_OfflineDoesNotSurviveRediscovery ==
    /\ [][Reappeared("d1")' => discovered_devices'["d1"].status = "discovered"]_vars
    /\ [][Reappeared("d2")' => discovered_devices'["d2"].status = "discovered"]_vars
    /\ Reappeared("d1") ~> (Probed("d1") \/ GoneOrOffline("d1"))
    /\ Reappeared("d2") ~> (Probed("d2") \/ GoneOrOffline("d2"))

\* C32 happens: an offline record was replaced by an announcement that came
\* without a running loop, while the registry holds a second peer.
C32_Witness ==
    /\ Reappeared("d1")
    /\ discovered_devices["d1"].status = "discovered"
    /\ probes[1].pc = "idle"
    /\ Len(devOrder) = 2

-----------------------------------------------------------------------------
(* The effect of building a snapshot on the registry and on the cache *)

\* C33 (as claimed): a call of get_aggregated_data leaves every record of the
\* registry and every entry of the cache, the items of its lists included,
\* as they were before the call.
C33_AggregationReadsOnly ==
    [][last'.op = "get_aggregated_data"
       => /\ discovered_devices' = discovered_devices
          /\ device_data_cache' = device_data_cache]_vars

-----------------------------------------------------------------------------
(* A peer that answers every probe from some time on *)

\* d1 has one pair in its probe order, A:8080.  Up to time 0 its liveness
\* check may fail; from time 1 on every liveness check is answered 200.
NextReach ==
    \/ AddService("n1", Info(V4A, 8080, TxtD1), FALSE, 1)
    \/ RemoveService("n1")
    \/ PeriodicFetch
    \/ \E s \in Slots : RunTask(s)
    \/ now = 0 /\ LivenessFails(1)
    \/ LivenessOk(1, NoData, {})
    \/ Exhausted(1)
    \/ Tick
    \/ SweepBegin
    \/ SweepNext
    \/ SweepWrite
    \/ SweepEnd({})

SpecReach == Init /\ [][NextReach]_vars

\* The loop of the sweeper has no await and runs on once it has started; the
\* event loop runs the cycle of periodic_fetch, every task that is ready and
\* every continuation of an answered request again and again, between the
\* passes of the sweeper.
SpecReachFair ==
    /\ SpecReach
    /\ WF_vars(SweepNext) /\ WF_vars(SweepWrite) /\ WF_vars(SweepEnd({}))
    /\ SF_vars(PeriodicFetch)
    /\ \A s \in Slots : SF_vars(RunTask(s))
    /\ SF_vars(LivenessOk(1, NoData, {}))
    /\ SF_vars(Exhausted(1))

\* The pair of id answers every liveness check from now on, and id has a
\* record that is not offline.
Reachable(id) ==
    /\ now >= 1
    /\ id \in DOMAIN discovered_devices
    /\ discovered_devices[id].status # "offline"

\* C35 (as claimed): a peer that is not offline and whose pair answers every
\* liveness check eventually has status connected in the registry (or goes
\* offline first), whatever its status was.
C35_ReachablePeerBecomesConnected ==
    Reachable("d1") ~> \/ GoneOrOffline("d1")
                       \/ discovered_devices["d1"].status = "connected"

-----------------------------------------------------------------------------
(* Snapshots of telemetry whose record was evicted *)

\* One device announced under the name n1 without deviceId, then with its
\* deviceId, then under the name n2.
OriginEvents ==
    { << "n1", Info(V4A, 8080, TxtNoId) >>,
      << "n1", Info(V4A, 8080, TxtD1) >>,
      << "n2", Info(V4A, 8080, TxtD1) >> }

OriginPayloads == { << Failed, JsonList(<< It("x") >>), Failed, Failed >> }

NextOrigin ==
    \/ \E e \in OriginEvents : AddService(e[1], e[2], FALSE, 1)
    \/ \E device_id \in Startable(1) : FetchDeviceData(1, device_id)
    \/ LivenessFails(1)
    \/ \E r \in OriginPayloads : LivenessOk(1, r, {})
    \/ Exhausted(1)
    \/ GetAggregatedData

SpecOrigin == Init /\ [][NextOrigin]_vars

\* The cache entry of device_id holds an item with the id of entry e in its
\* list `kind`.
SuppliedBy(device_id, kind, e) ==
    \E i \in 1..Len(device_data_cache[device_id][kind]) :
        device_data_cache[device_id][kind][i].id = e.id

\* C36 (as claimed): every entry of a returned snapshot that is not a
\* placeholder carries the email of a peer whose cache entry holds the item,
\* and an address, also when the record of that peer has left the registry.
C36_EntriesNameTheirSource ==
    Returned(last) =>
        \A kind \in ListKinds :
            \A i \in 1..Len(last.data[kind]) :
                ~last.data[kind][i].placeholder =>
                    /\ IsSome(last.data[kind][i].source_ip)
                    /\ \E id \in DOMAIN device_data_cache :
                          /\ SuppliedBy(id, kind, last.data[kind][i])
                          /\ last.data[kind][i].source_device = Some("e1")

-----------------------------------------------------------------------------
(* Snapshots built while the listener evicts and announces again *)

NextRebuild ==
    \/ \E e \in OriginEvents : AddService(e[1], e[2], FALSE, 1)
    \/ RemoveService("n1")
    \/ FetchDeviceData(1, "n1")
    \/ LivenessFails(1)
    \/ \E r \in OriginPayloads : LivenessOk(1, r, {})
    \/ Exhausted(1)
    \/ AggBegin
    \/ AggNext
    \/ AggPlaceholder
    \/ AggCacheBegin
    \/ AggMerge
    \/ AggReturn

SpecRebuild == Init /\ [][NextRebuild]_vars

\* C37 (as claimed): in every snapshot returned, no two entries of the
\* anchors list have the same id, and no two entries of the navigators list.
C37_ItemIdsAreUnique ==
    Returned(last) =>
        \A kind \in ListKinds :
            \A i, j \in 1..Len(last.data[kind]) :
                last.data[kind][i].id = last.data[kind][j].id => i = j

-----------------------------------------------------------------------------
(* What a record of status connected comes with *)

\* The record under id has just become connected.
BecomesConnected(id) ==
    /\ id \in DOMAIN discovered_devices'
    /\ discovered_devices'[id].status = "connected"
    /\ \/ id \notin DOMAIN discovered_devices
       \/ discovered_devices[id].status # "connected"

\* C38: every record of the registry with status connected has a
\* last_successful_fetch and a cache entry under its key, and a record
\* becomes connected only in the step of a probe of that key that stores the
\* cache entry.
C38_ConnectedHasTelemetry ==
    /\ [](\A id \in DOMAIN discovered_devices :
            discovered_devices[id].status = "connected"
            => /\ IsSome(discovered_devices[id].last_successful_fetch)
               /\ id \in DOMAIN device_data_cache)
    /\ [][\A id \in DOMAIN discovered_devices' :
            BecomesConnected(id)
            => /\ last'.op = "fetch_device_data"
               /\ last'.step \in {"connected", "broadcast_raised"}
               /\ last'.id = id
               /\ id \in DOMAIN device_data_cache'
               /\ device_data_cache'[id].timestamp = now]_vars

\* C38 happens: a manually registered peer is connected, next to an announced
\* peer that is not.
C38_Witness ==
    /\ \E id \in DOMAIN discovered_devices :
          /\ discovered_devices[id].manual
          /\ discovered_devices[id].status = "connected"
          /\ IsSome(discovered_devices[id].last_successful_fetch)
          /\ id \in DOMAIN device_data_cache
    /\ \E id \in DOMAIN discovered_devices :
          /\ ~discovered_devices[id].manual
          /\ discovered_devices[id].status # "connected"

-----------------------------------------------------------------------------
(* Manual registration next to an announced peer *)

\* What the device at A:8080 answers to GET /api/status: its status with an
\* email, its status without one, a list, or nothing usable.
RegistrationAnswers ==
    { JsonDict([email |-> "d1", role |-> "anchor"]),
      JsonDict([role |-> "anchor"]),
      JsonList(<< >>),
      Failed }

NextManual ==
    \/ AddService("n1", Info(V4A, 8080, TxtD1), FALSE, 1)
    \/ RemoveService("n1")
    \/ \E r \in RegistrationAnswers : RegisterDevice("A", 8080, r, 1)
    \/ \E device_id \in Startable(1) : FetchDeviceData(1, device_id)
    \/ LivenessFails(1)
    \/ LivenessOk(1, NoData, {})
    \/ Exhausted(1)

SpecManual == Init /\ [][NextManual]_vars

\* C21 (as claimed): a register_device call whose request fails returns an
\* error and leaves the registry and the cache as they were; one whose request
\* is answered stores the record as an announcement would: under its id, with
\* status discovered, and with no other record of its service name left.
C21_ManualRegistrationAsAnnounced ==
    [][last'.op = "register_device" =>
         IF last'.status = "error"
         THEN /\ discovered_devices' = discovered_devices
              /\ device_data_cache' = device_data_cache
         ELSE /\ last'.id \in DOMAIN discovered_devices'
              /\ discovered_devices'[last'.id].status = "discovered"
              /\ \A k \in DOMAIN discovered_devices' \ {last'.id} :
                    discovered_devices'[k].service_name
                      # discovered_devices'[last'.id].service_name]_vars

-----------------------------------------------------------------------------
(* A broadcast suspended in its sends while sockets connect and disconnect *)

NextPublish ==
    \/ AddService("n1", Info(V4A, 8080, TxtD1), FALSE, 1)
    \/ FetchDeviceData(1, "d1")
    \/ LivenessFails(1)
    \/ PublishBegin(1, NoData)
    \/ \E fails \in BOOLEAN : CastNext(fails)
    \/ \E fails \in BOOLEAN : CastEnd(fails)
    \/ Exhausted(1)
    \/ \E c \in Clients, sendFails \in BOOLEAN : WsConnect(c, sendFails)
    \/ \E c \in Clients : WsDisconnect(c)

SpecPublish == Init /\ [][NextPublish]_vars

\* The last step ended a broadcast_update that had called send_json.
Published(l) == l.op = "broadcast_update" /\ l.step \in {"done", "raised"}

\* How often send_json was called on socket c.
Attempts(l, c) == Cardinality({ i \in 1..Len(l.attempted) : l.attempted[i] = c })

\* C11 (as claimed): a broadcast builds one snapshot and calls send_json with
\* it exactly once on every socket that was in websocket_clients from the
\* start of the loop to its end, whatever connects or disconnects while a
\* send is awaited.
C11_OneSendPerLiveSubscriber ==
    Published(last) =>
        \A c \in Range(last.started) \cap Range(last.clients) :
            /\ Attempts(last, c) = 1
            /\ c \notin Range(last.failed) => outbox[c].sent = last.message

\* C12 (as claimed): when a broadcast_update call has ended, no socket whose
\* send_json raised during it is in websocket_clients, and every socket whose
\* send returned and that did not disconnect is still in it.
C12_FailedSendsArePruned ==
    Published(last) =>
        /\ \A c \in Range(last.failed) : c \notin Range(websocket_clients)
        /\ \A c \in Range(last.attempted) \ Range(last.failed) :
               c \in Range(last.clients) => c \in Range(websocket_clients)

\* C34 (as claimed): no removal of a socket from websocket_clients raises,
\* neither the removals at the end of broadcast_update nor the removal in the
\* disconnect handler of websocket_endpoint.
C34_RemovalNeverFails ==
    /\ last.op = "broadcast_update" => last.step # "raised"
    /\ (last.op = "websocket_endpoint" /\ last.step = "disconnect")
          => ~last.raised

\* C39 (as claimed): every socket that websocket_endpoint has put into
\* websocket_clients has had send_json called on it with the initial envelope
\* by the time anything else can run, so before any update is sent to it.
C39_InitialEnvelopeFirst ==
    (last.op = "websocket_endpoint" /\ last.step = "connect")
        => /\ last.called
           /\ last.client \in Range(websocket_clients)

====
